---------------------------- MODULE Spec2Model ----------------------------
(***************************************************************************)
(* Model of the decedents-finder batch: the deduplication ledger           *)
(* (processed_decedents), the orchestrator main() of find_decedents.py,    *)
(* the older orchestrator of find-decedents.py, and the birth-year window  *)
(* of match_decedents_with_voters in its two-year and three-year variants. *)
(*                                                                         *)
(* Text (file names, case numbers, names, page text) is a sequence of      *)
(* one-character strings, so that the regular expressions and slices of    *)
(* the source are computed character by character.                         *)
(***************************************************************************)
EXTENDS Integers, Sequences, FiniteSets, TLC

(***************************************************************************)
(* Characters and Python string helpers.                                   *)
(***************************************************************************)
Digits == {"0", "1", "2", "3", "4", "5", "6", "7", "8", "9"}

IsDigit(c) == c \in Digits

DigitVal(c) ==
    CASE c = "0" -> 0 [] c = "1" -> 1 [] c = "2" -> 2 [] c = "3" -> 3
      [] c = "4" -> 4 [] c = "5" -> 5 [] c = "6" -> 6 [] c = "7" -> 7
      [] c = "8" -> 8 [] c = "9" -> 9

\* int(s) for a string of decimal digits
RECURSIVE ToInt(_)
ToInt(s) ==
    IF s = <<>> THEN 0
    ELSE 10 * ToInt(SubSeq(s, 1, Len(s) - 1)) + DigitVal(s[Len(s)])

\* str.endswith
EndsWith(s, suffix) ==
    /\ Len(s) >= Len(suffix)
    /\ SubSeq(s, Len(s) - Len(suffix) + 1, Len(s)) = suffix

\* s[i:j] of Python with 1-based inclusive bounds; empty when j < i
Slice(s, i, j) == IF j < i THEN <<>> ELSE SubSeq(s, i, j)

AllDigits(s, i, n) ==
    /\ i + n - 1 <= Len(s)
    /\ \A k \in i..(i + n - 1) : IsDigit(s[k])

(***************************************************************************)
(* datetime: a record [year, month, day, tick]; tick counts the            *)
(* sub-day instants, TicksPerSecond of them to a second.  NoDate stands    *)
(* for Python's None (datetime has no year 0).                             *)
(***************************************************************************)
TicksPerSecond == 2
SecondsPerDay == 2
TicksPerDay == TicksPerSecond * SecondsPerDay

NoDate == [year |-> 0, month |-> 0, day |-> 0, tick |-> 0]

IsLeap(y) == (y % 4 = 0) /\ ((y % 100 # 0) \/ (y % 400 = 0))

DaysInMonth(y, m) ==
    IF m = 2 THEN (IF IsLeap(y) THEN 29 ELSE 28)
    ELSE IF m \in {4, 6, 9, 11} THEN 30 ELSE 31

DaysBeforeYear(y) ==
    (y - 1) * 365 + ((y - 1) \div 4) - ((y - 1) \div 100) + ((y - 1) \div 400)

RECURSIVE DaysBeforeMonth(_, _)
DaysBeforeMonth(y, m) ==
    IF m <= 1 THEN 0 ELSE DaysBeforeMonth(y, m - 1) + DaysInMonth(y, m - 1)

ToOrdinal(dt) == DaysBeforeYear(dt.year) + DaysBeforeMonth(dt.year, dt.month) + dt.day

\* position of a datetime on the time line, in ticks
Instant(dt) == ToOrdinal(dt) * TicksPerDay + dt.tick

mutant_Strptime_day_first(date_str) ==
    LET dd == ToInt(SubSeq(date_str, 1, 2))
        mm == ToInt(SubSeq(date_str, 3, 4))
        yy == ToInt(SubSeq(date_str, 5, 8))
    IN  IF mm \in 1..12 /\ yy >= 1 /\ dd >= 1 /\ dd <= DaysInMonth(yy, mm)
        THEN [year |-> yy, month |-> mm, day |-> dd, tick |-> 0]
        ELSE NoDate

\* datetime.strptime(date_str, '%m%d%Y') on 8 digits; NoDate for ValueError
Strptime(date_str) ==
    LET mm == ToInt(SubSeq(date_str, 1, 2))
        dd == ToInt(SubSeq(date_str, 3, 4))
        yy == ToInt(SubSeq(date_str, 5, 8))
    IN  IF /\ mm \in 1..12
           /\ yy >= 1
           /\ dd >= 1
           /\ dd <= DaysInMonth(yy, mm)
        THEN [year |-> yy, month |-> mm, day |-> dd, tick |-> 0]
        ELSE NoDate

\* re.search(r'\d{8}', filename): start of the leftmost run of 8 digits, 0 if none
RECURSIVE SearchEightDigits(_, _)
SearchEightDigits(s, i) ==
    IF i + 7 > Len(s) THEN 0
    ELSE IF AllDigits(s, i, 8) THEN i
    ELSE SearchEightDigits(s, i + 1)

extract_date_from_filename(filename) ==
    LET at == SearchEightDigits(filename, 1)
    IN  IF at # 0 THEN Strptime(SubSeq(filename, at, at + 7)) ELSE NoDate

DaysWindow == 60

\* file_date < now - timedelta(days=60)
mutant_is_older_inclusive(file_date, now_dt) ==
    Instant(file_date) <= Instant(now_dt) - DaysWindow * TicksPerDay

is_older_than_two_months(file_date, now_dt) ==
    Instant(file_date) < Instant(now_dt) - DaysWindow * TicksPerDay

\* datetime.strftime('%Y%m%d_%H%M%S'): the instant cut to whole seconds
RunIdOf(now_dt) ==
    <<now_dt.year, now_dt.month, now_dt.day, now_dt.tick \div TicksPerSecond>>

\* pdf_date.strftime('%Y-%m-%d')
DateStr(dt) == <<dt.year, dt.month, dt.day>>

(***************************************************************************)
(* extract_names_and_ages_from_pdf: page text to decedent records.         *)
(* A PDF is [ok, pages]: ok = FALSE is a file pdfplumber rejects with      *)
(* PDFSyntaxError; pages is the sequence of page texts (<<>> for a page    *)
(* without text).                                                          *)
(***************************************************************************)
Whitespace == {" ", "\n", "\t"}

NewlineMark == <<" ", "<", "N", "E", "W", "L", "I", "N", "E", ">", " ">>

\* text.replace('\n', ' <NEWLINE> ')
RECURSIVE ReplaceNewlines(_)
ReplaceNewlines(t) ==
    IF t = <<>> THEN <<>>
    ELSE (IF Head(t) = "\n" THEN NewlineMark ELSE <<Head(t)>>)
         \o ReplaceNewlines(Tail(t))

\* r'(\d{2}-\d{5})' matches at position i
CaseAt(t, i) ==
    /\ i + 7 <= Len(t)
    /\ AllDigits(t, i, 2)
    /\ t[i + 2] = "-"
    /\ AllDigits(t, i + 3, 5)

\* re.finditer(case_pattern, text): starts of the non-overlapping matches
RECURSIVE FindCases(_, _)
FindCases(t, i) ==
    IF i + 7 > Len(t) THEN <<>>
    ELSE IF CaseAt(t, i) THEN <<i>> \o FindCases(t, i + 8)
    ELSE FindCases(t, i + 1)

RECURSIVE DigitRunEnd(_, _)
DigitRunEnd(t, i) ==
    IF i <= Len(t) /\ IsDigit(t[i]) THEN DigitRunEnd(t, i + 1) ELSE i

RECURSIVE SpaceRunEnd(_, _)
SpaceRunEnd(t, i) ==
    IF i <= Len(t) /\ t[i] \in Whitespace THEN SpaceRunEnd(t, i + 1) ELSE i

\* r'(\d+)\s*years' matches at position i
AgeAt(t, i) ==
    /\ i <= Len(t)
    /\ IsDigit(t[i])
    /\ LET k == SpaceRunEnd(t, DigitRunEnd(t, i))
       IN  /\ k + 4 <= Len(t)
           /\ SubSeq(t, k, k + 4) = <<"y", "e", "a", "r", "s">>

\* re.search(age_pattern, entry_text): start of the leftmost match, 0 if none
RECURSIVE SearchAge(_, _)
SearchAge(t, i) ==
    IF i > Len(t) THEN 0
    ELSE IF AgeAt(t, i) THEN i
    ELSE SearchAge(t, i + 1)

StartsWithAt(t, i, w) == i + Len(w) - 1 <= Len(t) /\ SubSeq(t, i, i + Len(w) - 1) = w

\* re.sub(r'(<NEWLINE>|<br>)', ' ', name_text)
RECURSIVE ReplaceMarkers(_, _)
ReplaceMarkers(t, i) ==
    IF i > Len(t) THEN <<>>
    ELSE IF StartsWithAt(t, i, <<"<", "N", "E", "W", "L", "I", "N", "E", ">">>)
         THEN <<" ">> \o ReplaceMarkers(t, i + 9)
    ELSE IF StartsWithAt(t, i, <<"<", "b", "r", ">">>)
         THEN <<" ">> \o ReplaceMarkers(t, i + 4)
    ELSE <<t[i]>> \o ReplaceMarkers(t, i + 1)

\* str.split(): the maximal runs of non-whitespace characters
RECURSIVE SplitWs(_, _, _)
SplitWs(t, i, cur) ==
    IF i > Len(t) THEN (IF cur = <<>> THEN <<>> ELSE <<cur>>)
    ELSE IF t[i] \in Whitespace
         THEN (IF cur = <<>> THEN <<>> ELSE <<cur>>) \o SplitWs(t, i + 1, <<>>)
    ELSE SplitWs(t, i + 1, Append(cur, t[i]))

Split(t) == SplitWs(t, 1, <<>>)

\* ' '.join(tokens)
RECURSIVE JoinSp(_)
JoinSp(tokens) ==
    IF tokens = <<>> THEN <<>>
    ELSE IF Len(tokens) = 1 THEN tokens[1]
    ELSE tokens[1] \o <<" ">> \o JoinSp(Tail(tokens))

LowerChar(c) ==
    CASE c = "A" -> "a" [] c = "B" -> "b" [] c = "C" -> "c" [] c = "D" -> "d"
      [] c = "E" -> "e" [] c = "F" -> "f" [] c = "G" -> "g" [] c = "H" -> "h"
      [] c = "I" -> "i" [] c = "J" -> "j" [] c = "K" -> "k" [] c = "L" -> "l"
      [] c = "M" -> "m" [] c = "N" -> "n" [] c = "O" -> "o" [] c = "P" -> "p"
      [] c = "Q" -> "q" [] c = "R" -> "r" [] c = "S" -> "s" [] c = "T" -> "t"
      [] c = "U" -> "u" [] c = "V" -> "v" [] c = "W" -> "w" [] c = "X" -> "x"
      [] c = "Y" -> "y" [] c = "Z" -> "z" [] OTHER -> c

\* str.lower()
Lower(t) == [i \in 1..Len(t) |-> LowerChar(t[i])]

\* str.strip()
RECURSIVE StripLeft(_)
StripLeft(t) ==
    IF t # <<>> /\ Head(t) \in Whitespace THEN StripLeft(Tail(t)) ELSE t

RECURSIVE StripRight(_)
StripRight(t) ==
    IF t # <<>> /\ t[Len(t)] \in Whitespace
    THEN StripRight(SubSeq(t, 1, Len(t) - 1)) ELSE t

Strip(t) == StripRight(StripLeft(t))

CaseNumberLen == 8

\* the record of one entry span, <<>> when the span holds no age token
ExtractEntry(entry_text) ==
    LET case_num == SubSeq(entry_text, 1, CaseNumberLen)
        age_at == SearchAge(entry_text, 1)
    IN  IF age_at = 0 THEN <<>>
        ELSE LET age == ToInt(SubSeq(entry_text, age_at,
                                     DigitRunEnd(entry_text, age_at) - 1))
                 name_text == Strip(Slice(entry_text, CaseNumberLen + 1, age_at - 1))
                 name == JoinSp(Split(Strip(ReplaceMarkers(name_text, 1))))
             IN  << [name |-> Lower(name), age |-> age, case_number |-> case_num] >>

RECURSIVE ExtractEntries(_, _, _)
ExtractEntries(text, starts, i) ==
    IF i > Len(starts) THEN <<>>
    ELSE LET start_idx == starts[i]
             end_idx == IF i + 1 <= Len(starts) THEN starts[i + 1] - 1 ELSE Len(text)
         IN  ExtractEntry(SubSeq(text, start_idx, end_idx))
             \o ExtractEntries(text, starts, i + 1)

ExtractPage(page_text) ==
    IF page_text = <<>> THEN <<>>
    ELSE LET text == ReplaceNewlines(page_text)
         IN  ExtractEntries(text, FindCases(text, 1), 1)

RECURSIVE ExtractPages(_)
ExtractPages(pages) ==
    IF pages = <<>> THEN <<>>
    ELSE ExtractPage(Head(pages)) \o ExtractPages(Tail(pages))

\* a page whose extract_text() raises PDFSyntaxError
BrokenPage == <<"PDFSyntaxError">>

\* the document cannot be opened, or one of its pages cannot be parsed
RaisesPDFSyntaxError(pdf) ==
    ~pdf.ok \/ \E i \in 1..Len(pdf.pages) : pdf.pages[i] = BrokenPage

\* the value returned when the except clause catches the error: []
extract_names_and_ages_from_pdf(pdf) ==
    IF RaisesPDFSyntaxError(pdf) THEN <<>> ELSE ExtractPages(pdf.pages)

(***************************************************************************)
(* NameMatcher: split_name and is_name_match.                              *)
(***************************************************************************)
mutant_split_name_last_is_second(name) ==
    LET tokens == Split(Lower(Strip(name)))
    IN  IF Len(tokens) < 2 THEN <<>>
        ELSE << tokens[1],
                IF Len(tokens) > 2 THEN JoinSp(SubSeq(tokens, 2, Len(tokens) - 1))
                ELSE <<>>,
                tokens[2] >>

\* split_name: <<first, middle, last>>, or <<>> for (None, None, None)
split_name(name) ==
    LET tokens == Split(Lower(Strip(name)))
    IN  IF Len(tokens) < 2 THEN <<>>
        ELSE << tokens[1],
                IF Len(tokens) > 2 THEN JoinSp(SubSeq(tokens, 2, Len(tokens) - 1))
                ELSE <<>>,
                tokens[Len(tokens)] >>

\* length of a longest common subsequence
RECURSIVE Lcs(_, _)
Lcs(a, b) ==
    IF a = <<>> \/ b = <<>> THEN 0
    ELSE IF Head(a) = Head(b) THEN 1 + Lcs(Tail(a), Tail(b))
    ELSE LET x == Lcs(Tail(a), b)
             y == Lcs(a, Tail(b))
         IN  IF x >= y THEN x ELSE y

\* round(num / den) of Python 3: a tie goes to the even neighbour
RoundHalfEven(num, den) ==
    LET q == num \div den
        r == num % den
    IN  IF 2 * r > den THEN q + 1
        ELSE IF 2 * r < den THEN q
        ELSE IF q % 2 = 0 THEN q ELSE q + 1

\* fuzz.ratio: int(round(100 * 2 * M / T)), M matched characters, T total length
fuzz_ratio(a, b) ==
    LET total == Len(a) + Len(b)
    IN  IF total = 0 THEN 100
        ELSE RoundHalfEven(200 * Lcs(a, b), total)

SimilarityThreshold == 90

StartsWith(s, prefix) ==
    Len(prefix) <= Len(s) /\ SubSeq(s, 1, Len(prefix)) = prefix

mutant_is_name_match_at_least_90(decedent_name, voter_name) ==
    LET n1 == Split(Lower(Strip(decedent_name)))
        n2 == Split(Lower(Strip(voter_name)))
        mid(n) == IF Len(n) > 2 THEN JoinSp(SubSeq(n, 2, Len(n) - 1)) ELSE <<>>
    IN  IF Len(n1) < 2 \/ Len(n2) < 2 THEN FALSE
        ELSE IF fuzz_ratio(n1[1], n2[1]) >= 90 /\ fuzz_ratio(n1[Len(n1)], n2[Len(n2)]) >= 90
             THEN IF mid(n1) # <<>> /\ mid(n2) # <<>>
                  THEN \/ mid(n1) = mid(n2)
                       \/ (Len(mid(n1)) = 1 /\ StartsWith(mid(n2), mid(n1)))
                       \/ (Len(mid(n2)) = 1 /\ StartsWith(mid(n1), mid(n2)))
                  ELSE TRUE
             ELSE FALSE

mutant_is_name_match_ignore_middle(decedent_name, voter_name) ==
    LET n1 == Split(Lower(Strip(decedent_name)))
        n2 == Split(Lower(Strip(voter_name)))
    IN  IF Len(n1) < 2 \/ Len(n2) < 2 THEN FALSE
        ELSE fuzz_ratio(n1[1], n2[1]) > 90 /\ fuzz_ratio(n1[Len(n1)], n2[Len(n2)]) > 90

is_name_match(decedent_name, voter_name) ==
    LET n1 == split_name(decedent_name)
        n2 == split_name(voter_name)
    IN  IF n1 = <<>> \/ n2 = <<>> THEN FALSE
        ELSE LET first_sim == fuzz_ratio(n1[1], n2[1])
                 last_sim == fuzz_ratio(n1[3], n2[3])
                 middle1 == n1[2]
                 middle2 == n2[2]
             IN  IF first_sim > SimilarityThreshold /\ last_sim > SimilarityThreshold
                 THEN IF middle1 # <<>> /\ middle2 # <<>>
                      THEN \/ middle1 = middle2
                           \/ (Len(middle1) = 1 /\ StartsWith(middle2, middle1))
                           \/ (Len(middle2) = 1 /\ StartsWith(middle1, middle2))
                      ELSE TRUE
                 ELSE FALSE

(***************************************************************************)
(* ReferenceStore: the voters_<date> tables of voters.db.  tables maps a   *)
(* date part (8 digits) to the sequence of rows of that table.             *)
(***************************************************************************)
\* str.zfill-style decimal rendering of n on w digits (strftime fields)
RECURSIVE FormatInt(_, _)
FormatInt(n, w) ==
    IF w = 0 THEN <<>>
    ELSE FormatInt(n \div 10, w - 1)
         \o <<CHOOSE c \in Digits : DigitVal(c) = n % 10>>

\* re.search(r'^(\d{8})_', basename), else today.strftime('%Y%m%d')
extract_date_from_voter_file(filename, now_dt) ==
    IF AllDigits(filename, 1, 8) /\ Len(filename) >= 9 /\ filename[9] = "_"
    THEN SubSeq(filename, 1, 8)
    ELSE FormatInt(now_dt.year, 4) \o FormatInt(now_dt.month, 2)
         \o FormatInt(now_dt.day, 2)

\* pd.to_numeric(errors='coerce') then dropna: is the birth year a number
IsNumeric(s) == s # <<>> /\ \A i \in 1..Len(s) : IsDigit(s[i])

\* the rows of the data frame written by df.to_sql
RECURSIVE LoadRows(_)
LoadRows(raw_rows) ==
    IF raw_rows = <<>> THEN <<>>
    ELSE LET r == Head(raw_rows)
         IN  (IF IsNumeric(r.Birthyear)
              THEN << [StateVoterID |-> r.StateVoterID, FName |-> r.FName,
                       MName |-> r.MName, LName |-> r.LName,
                       Birthyear |-> ToInt(r.Birthyear)] >>
              ELSE <<>>)
             \o LoadRows(Tail(raw_rows))

\* load_voter_registration_to_sqlite: [conn, tables, index].
\* conn is "conn" (a connection), "none" (None after FileNotFoundError or
\* EmptyDataError) or "raise" (an exception the function does not catch: the
\* ParserError of pd.read_csv on a malformed file, the OperationalError of
\* CREATE INDEX);
\* index tells whether the index idx_name_birthyear exists in voters.db.
load_voter_registration_to_sqlite(voter_file, tabs, index, now_dt) ==
    LET table_name == extract_date_from_voter_file(voter_file.name, now_dt)
        loaded == [n \in DOMAIN tabs \cup {table_name} |->
                     IF n = table_name THEN LoadRows(voter_file.rows) ELSE tabs[n]]
    IN  IF table_name \in DOMAIN tabs
        THEN [conn |-> "conn", tables |-> tabs, index |-> index]
        ELSE IF voter_file.state \in {"missing", "empty"}
        THEN [conn |-> "none", tables |-> tabs, index |-> index]
        ELSE IF voter_file.state = "malformed"
        THEN [conn |-> "raise", tables |-> tabs, index |-> index]
        ELSE IF index
        THEN [conn |-> "raise", tables |-> loaded, index |-> index]
        ELSE [conn |-> "conn", tables |-> loaded, index |-> TRUE]

\* lexicographic order of two strings of digits of equal length
RECURSIVE DigitsLess(_, _)
DigitsLess(a, b) ==
    IF a = <<>> \/ b = <<>> THEN FALSE
    ELSE IF Head(a) # Head(b) THEN DigitVal(Head(a)) < DigitVal(Head(b))
    ELSE DigitsLess(Tail(a), Tail(b))

mutant_get_latest_voter_table_oldest(tabs) ==
    IF DOMAIN tabs = {} THEN <<>>
    ELSE CHOOSE n \in DOMAIN tabs : \A m \in DOMAIN tabs : ~DigitsLess(m, n)

\* SELECT name ... LIKE 'voters_%' ORDER BY name DESC LIMIT 1 (<<>> if none)
get_latest_voter_table(tabs) ==
    IF DOMAIN tabs = {} THEN <<>>
    ELSE CHOOSE n \in DOMAIN tabs : \A m \in DOMAIN tabs : ~DigitsLess(n, m)

CURRENT_YEAR == 2024

mutant_possible_birth_years_shifted(reference_year, age) ==
    <<reference_year - age, reference_year - age + 1>>

\* find_decedents.py and find-decedents.py
possible_birth_years(reference_year, age) ==
    <<reference_year - age - 1, reference_year - age>>

\* fetch_decedents_lists.py
possible_birth_years_3(reference_year, age) ==
    <<reference_year - age - 1, reference_year - age, reference_year - age + 1>>

SeqToSet(q) == {q[i] : i \in 1..Len(q)}

\* SELECT ... WHERE Birthyear IN (...): the rows in table order
RECURSIVE SelectByBirthyear(_, _)
SelectByBirthyear(rows, years) ==
    IF rows = <<>> THEN <<>>
    ELSE (IF Head(rows).Birthyear \in SeqToSet(years) THEN <<Head(rows)>> ELSE <<>>)
         \o SelectByBirthyear(Tail(rows), years)

\* str() of a column value in an f-string: an empty field is stored as NULL,
\* read back as None and formatted as 'None'
FormatField(x) == IF x = <<>> THEN <<"N", "o", "n", "e">> ELSE x

\* f"{row[1]} {row[2]} {row[3]}".strip().lower()
voter_name_of(row) ==
    Lower(Strip(FormatField(row.FName) \o <<" ">> \o FormatField(row.MName) \o <<" ">>
                \o FormatField(row.LName)))

mutant_MatchRows_first_only(name, rows) ==
    LET hits == SelectSeq(rows, LAMBDA r : is_name_match(name, voter_name_of(r)))
    IN  IF hits = <<>> THEN <<>> ELSE << [Name |-> name, VoterInfo |-> hits[1]] >>

RECURSIVE MatchRows(_, _)
MatchRows(name, rows) ==
    IF rows = <<>> THEN <<>>
    ELSE (IF is_name_match(name, voter_name_of(Head(rows)))
          THEN << [Name |-> name, VoterInfo |-> Head(rows)] >>
          ELSE <<>>)
         \o MatchRows(name, Tail(rows))

\* the loop of match_decedents_with_voters over the (name, age) pairs:
\* [queries, matches]; a query is [age, reference_year, years]
RECURSIVE MatchLoop(_, _, _)
MatchLoop(decedents, rows, pdf_year) ==
    IF decedents = <<>> THEN [queries |-> <<>>, matches |-> <<>>]
    ELSE LET d == Head(decedents)
             reference_year == IF pdf_year # 0 THEN pdf_year ELSE CURRENT_YEAR
             years == possible_birth_years(reference_year, d.age)
             rest == MatchLoop(Tail(decedents), rows, pdf_year)
         IN  [queries |-> << [age |-> d.age, reference_year |-> reference_year,
                              years |-> years] >> \o rest.queries,
              matches |-> MatchRows(d.name, SelectByBirthyear(rows, years))
                          \o rest.matches]

match_decedents_with_voters(decedents, tabs, pdf_year) ==
    LET table_name == get_latest_voter_table(tabs)
    IN  IF table_name = <<>> THEN [queries |-> <<>>, matches |-> <<>>]
        ELSE MatchLoop(decedents, tabs[table_name], pdf_year)

(***************************************************************************)
(* DeduplicationLedger: the processed_decedents table, a set of rows       *)
(* [name, age, first_seen_date, last_seen_date, case_number, run_id].      *)
(***************************************************************************)
\* SELECT ... WHERE case_number = ?
SelectByCase(led, case_number) == {e \in led : e.case_number = case_number}

\* SELECT ... WHERE case_number = ? AND run_id = ?
SelectByCaseAndRun(led, case_number, rid) ==
    {e \in led : e.case_number = case_number /\ e.run_id = rid}

LedgerEntry(decedent, pdf_date, rid) ==
    [name |-> decedent.name, age |-> decedent.age,
     first_seen_date |-> DateStr(pdf_date), last_seen_date |-> DateStr(pdf_date),
     case_number |-> decedent.case_number, run_id |-> rid]

\* INSERT INTO processed_decedents: [ok, ledger]; ok = FALSE is the
\* IntegrityError of the PRIMARY KEY (case_number, run_id)
InsertEntry(led, entry) ==
    IF SelectByCaseAndRun(led, entry.case_number, entry.run_id) # {}
    THEN [ok |-> FALSE, ledger |-> led]
    ELSE [ok |-> TRUE, ledger |-> led \cup {entry}]

mutant_process_decedent_run_only(led, decedent, pdf_date, rid) ==
    IF SelectByCaseAndRun(led, decedent.case_number, rid) # {}
    THEN [ret |-> FALSE, ledger |-> led]
    ELSE [ret |-> TRUE, ledger |-> led \cup {LedgerEntry(decedent, pdf_date, rid)}]

mutant_process_decedent_other_runs_only(led, decedent, pdf_date, rid) ==
    IF \E e \in led : e.case_number = decedent.case_number /\ e.run_id # rid
    THEN [ret |-> FALSE, ledger |-> led]
    ELSE [ret |-> TRUE, ledger |-> led \cup {LedgerEntry(decedent, pdf_date, rid)}]

mutant_process_decedent_no_insert(led, decedent, pdf_date, rid) ==
    [ret |-> SelectByCase(led, decedent.case_number) = {}, ledger |-> led]

mutant_process_decedent_touch(led, decedent, pdf_date, rid) ==
    LET seen == SelectByCase(led, decedent.case_number)
    IN  IF seen # {}
        THEN [ret |-> FALSE,
              ledger |-> (led \ seen) \cup
                         {[e EXCEPT !.last_seen_date = DateStr(pdf_date)] : e \in seen}]
        ELSE [ret |-> TRUE, ledger |-> led \cup {LedgerEntry(decedent, pdf_date, rid)}]

mutant_process_decedent_record_refusal(led, decedent, pdf_date, rid) ==
    IF SelectByCase(led, decedent.case_number) # {}
    THEN [ret |-> FALSE, ledger |-> led \cup {LedgerEntry(decedent, pdf_date, rid)}]
    ELSE [ret |-> TRUE, ledger |-> led \cup {LedgerEntry(decedent, pdf_date, rid)}]

\* process_decedent: [ret, ledger]
process_decedent(led, decedent, pdf_date, rid) ==
    LET previous_result == SelectByCase(led, decedent.case_number)
        current_run_result == SelectByCaseAndRun(led, decedent.case_number, rid)
    IN  IF current_run_result # {} THEN [ret |-> FALSE, ledger |-> led]
        ELSE IF previous_result # {} THEN [ret |-> FALSE, ledger |-> led]
        ELSE [ret |-> TRUE,
              ledger |-> InsertEntry(led, LedgerEntry(decedent, pdf_date, rid)).ledger]

mutant_initialize_keep(exists, led, reset) ==
    [exists |-> TRUE, ledger |-> led]

\* initialize_decedents_table: [exists, ledger]
initialize_decedents_table(exists, led, reset) ==
    [exists |-> TRUE, ledger |-> IF reset THEN {} ELSE led]

(***************************************************************************)
(* The world of a run: the PDF folder, the voter files and the clock.      *)
(***************************************************************************)
FileJan == <<"D", "_", "0", "1", "1", "5", "2", "0", "2", "4", ".", "p", "d", "f">>
FileFeb == <<"D", "_", "0", "2", "0", "1", "2", "0", "2", "4", ".", "p", "d", "f">>
FileMay == <<"D", "_", "0", "5", "2", "0", "2", "0", "2", "4", ".", "p", "d", "f">>
FileDec == <<"D", "_", "1", "2", "3", "1", "2", "0", "2", "3", ".", "p", "d", "f">>
FileBadMonth == <<"D", "_", "1", "3", "0", "1", "2", "0", "2", "4", ".", "p", "d", "f">>
FileNoDate == <<"n", "o", "t", "e", "s", ".", "p", "d", "f">>
FileNov == <<"D", "_", "1", "1", "3", "0", "2", "0", "2", "3", ".", "p", "d", "f">>
FileBroken == <<"D", "_", "0", "1", "2", "0", "2", "0", "2", "4", ".", "p", "d", "f">>
FileOrg ==
    <<"D", "_", "0", "1", "1", "5", "2", "0", "2", "4", ".", "o", "r", "g", ".", "p", "d", "f">>

\* the content of each file of the folder
Pdf(filename) ==
    CASE filename = FileJan ->
           [ok |-> TRUE, pages |-> <<
             <<"2", "4", "-", "0", "0", "0", "0", "1", " ", "A", "l", " ", "B", "o", " ",
               "6", "6", " ", "y", "e", "a", "r", "s", "\n",
               "2", "4", "-", "0", "0", "0", "0", "2", " ", "C", "y", "\n", "D", "i", " ",
               "7", "y", "e", "a", "r", "s">> >>]
      [] filename = FileFeb ->
           [ok |-> TRUE, pages |-> <<
             <<"2", "4", "-", "0", "0", "0", "0", "1", " ", "a", "l", " ", "b", "o", " ",
               "6", "6", " ", "y", "e", "a", "r", "s">>,
             <<"2", "4", "-", "0", "0", "0", "0", "3", " ", "e", "d", " ", "f", "y", " ",
               "4", "0", " ", "y", "e", "a", "r", "s", "\n",
               "2", "4", "-", "0", "0", "0", "0", "3", " ", "e", "d", " ", "f", "y", " ",
               "4", "0", " ", "y", "e", "a", "r", "s">> >>]
      [] filename = FileMay ->
           [ok |-> TRUE, pages |-> <<
             <<"2", "4", "-", "0", "0", "0", "0", "5", " ", "l", "u", " ", "m", "o", " ",
               "2", "9", " ", "y", "e", "a", "r", "s">> >>]
      [] filename = FileDec ->
           [ok |-> TRUE, pages |-> <<
             <<>>,
             <<"n", "o", " ", "e", "n", "t", "r", "i", "e", "s", " ",
               "t", "o", "d", "a", "y">> >>]
      [] filename = FileBadMonth ->
           [ok |-> TRUE, pages |-> <<
             <<"2", "4", "-", "0", "0", "0", "0", "4", " ", "g", "i", " ", "h", "o", " ",
               "3", "0", " ", "y", "e", "a", "r", "s">> >>]
      [] filename = FileNoDate ->
           [ok |-> TRUE, pages |-> <<
             <<"2", "4", "-", "0", "0", "0", "0", "4", " ", "g", "i", " ", "h", "o", " ",
               "3", "0", " ", "y", "e", "a", "r", "s">> >>]
      [] filename = FileNov ->
           [ok |-> TRUE, pages |-> <<
             <<"2", "4", "-", "0", "0", "0", "0", "1", " ", "A", "l", " ", "B", "o", " ",
               "6", "6", " ", "y", "e", "a", "r", "s">> >>]
      [] filename = FileBroken ->
           [ok |-> FALSE, pages |-> <<>>]
      [] filename = FileOrg ->
           [ok |-> TRUE, pages |-> <<
             <<"2", "4", "-", "0", "0", "0", "0", "6", " ", "j", "o", " ", "k", "o", " ",
               "5", "1", " ", "y", "e", "a", "r", "s">> >>]

\* os.listdir(pdf_folder): the folders a run may be started on, in listing order
Listings ==
    { <<FileFeb, FileJan>>,
      <<FileBadMonth, FileFeb, FileNoDate>>,
      <<FileMay, FileJan, FileOrg>>,
      <<FileDec, FileOrg>>,
      <<FileBroken, FileFeb, FileJan>>,
      <<FileJan, FileNov>>,
      <<FileOrg>> }

VoterRowsA ==
    << [StateVoterID |-> 1, FName |-> <<"A", "L">>, MName |-> <<>>,
        LName |-> <<"B", "O">>, Birthyear |-> <<"1", "9", "5", "8">>],
       [StateVoterID |-> 2, FName |-> <<"A", "L">>, MName |-> <<"X">>,
        LName |-> <<"B", "O">>, Birthyear |-> <<"1", "9", "5", "9">>],
       [StateVoterID |-> 3, FName |-> <<"E", "D">>, MName |-> <<>>,
        LName |-> <<"F", "Y">>, Birthyear |-> <<"1", "9", "8", "4">>],
       [StateVoterID |-> 4, FName |-> <<"C", "Y">>, MName |-> <<>>,
        LName |-> <<"D", "I">>, Birthyear |-> <<"n", "/", "a">>] >>

VoterRowsB ==
    << [StateVoterID |-> 1, FName |-> <<"A", "L">>, MName |-> <<>>,
        LName |-> <<"B", "O">>, Birthyear |-> <<"1", "9", "5", "7">>] >>

VoterFiles ==
    { [name |-> <<"2", "0", "2", "4", "0", "1", "0", "1", "_", "V", ".", "t", "x", "t">>,
       state |-> "ok", rows |-> VoterRowsA],
      [name |-> <<"2", "0", "2", "4", "0", "3", "0", "1", "_", "V", ".", "t", "x", "t">>,
       state |-> "ok", rows |-> VoterRowsB],
      [name |-> <<"v", "o", "t", "e", "r", "s", ".", "t", "x", "t">>,
       state |-> "missing", rows |-> <<>>],
      [name |-> <<"2", "0", "2", "4", "0", "1", "0", "1", "_", "W", ".", "t", "x", "t">>,
       state |-> "missing", rows |-> <<>>],
      [name |-> <<"2", "0", "2", "4", "0", "2", "0", "1", "_", "E", ".", "t", "x", "t">>,
       state |-> "empty", rows |-> <<>>],
      [name |-> <<"2", "0", "2", "4", "0", "2", "0", "1", "_", "M", ".", "t", "x", "t">>,
       state |-> "malformed", rows |-> <<>>] }

\* the instants at which the clock is read
NowSet ==
    { [year |-> 2024, month |-> 3, day |-> 15, tick |-> 0],
      [year |-> 2024, month |-> 3, day |-> 15, tick |-> 1],
      [year |-> 2024, month |-> 4, day |-> 2, tick |-> 0],
      [year |-> 2024, month |-> 8, day |-> 1, tick |-> 0] }

MaxRuns == 2

(***************************************************************************)
(* main() of find_decedents.py as a state machine.                         *)
(***************************************************************************)
VARIABLES
    now,            \* the clock: the value datetime.now() returns
    tables,         \* voters.db: the voters_<date> tables
    index_exists,   \* voters.db: does idx_name_birthyear exist
    ledger_exists,  \* voters.db: does processed_decedents exist
    ledger,         \* voters.db: the rows of processed_decedents
    pc,             \* position of the run: "idle", "file", "dedup", "match"
    run_id,         \* run id of the current run
    reset,          \* the --reset flag of the current run
    pdf_files,      \* the sorted list of files of the current run
    idx,            \* index in pdf_files of the file being processed
    pdf_date,       \* date of the file being processed
    decedents,      \* records extracted from the file being processed
    di,             \* index in decedents of the next record to filter
    to_process,     \* decedents_to_process: (name, age) of the new cases
    total_matches,  \* total_matches of the current run
    reports,        \* reports of the current run: [file, date, matches]
    runs,           \* number of runs started
    ev,             \* the last step taken: [op, file, case, run, ret]
    calls,          \* flips at every call of process_decedent
    hist,           \* (case, run id) of the calls that returned True since the last reset
    dropped,        \* the case numbers recorded when the ledger was last dropped
    called,         \* the case numbers process_decedent was called for since then
    skipped,        \* the sources a run has skipped without passing them to the ledger
    unreported,     \* the case numbers recorded whose source has not been matched and reported
    processed,      \* the sources passed to the extractor in the current run, in order
    queries,        \* the birth-year queries of the last match_decedents_with_voters
    workers,        \* concurrent callers of process_decedent (SpecConc)
    voters_db,      \* the voters.db of find-decedents.py (SpecLegacy)
    probe           \* a function applied on its own: [fn, args, out]

vars ==
    << now, tables, index_exists, ledger_exists, ledger, pc, run_id, reset, pdf_files,
       idx, pdf_date, decedents, di, to_process, total_matches, reports, runs, ev,
       calls, hist, dropped, called, skipped, unreported, processed, queries, workers, voters_db, probe >>

dbVars == << tables, index_exists, ledger_exists, ledger >>
loopVars == << pdf_date, decedents, di, to_process >>
ghostVars == << calls, hist, dropped, called, skipped, unreported >>
otherVars == << workers, voters_db, probe >>

\* no function has been applied on its own
NoProbe == [fn |-> "none", args |-> <<>>, out |-> <<>>]

NoRun == <<0, 0, 0, 0>>

Event(op, file, case, run, ret) ==
    [op |-> op, file |-> file, case |-> case, run |-> run, ret |-> ret]

\* datetime.max, the sort key of a file without a date
DatetimeMax == [year |-> 9999, month |-> 12, day |-> 31, tick |-> TicksPerDay - 1]

SortKey(filename) ==
    LET d == extract_date_from_filename(filename)
    IN  IF d # NoDate THEN Instant(d) ELSE Instant(DatetimeMax)

\* insert x behind the entries whose key is not greater (list.sort is stable)
RECURSIVE InsertByKey(_, _)
InsertByKey(sorted, x) ==
    IF sorted = <<>> THEN <<x>>
    ELSE IF SortKey(x) < SortKey(Head(sorted)) THEN <<x>> \o sorted
    ELSE <<Head(sorted)>> \o InsertByKey(Tail(sorted), x)

RECURSIVE SortFrom(_, _)
SortFrom(files, sorted) ==
    IF files = <<>> THEN sorted
    ELSE SortFrom(Tail(files), InsertByKey(sorted, Head(files)))

mutant_SortByDate_unsorted(files) == files

\* pdf_files.sort(key=lambda x: extract_date_from_filename(x) or datetime.max)
SortByDate(files) == SortFrom(files, <<>>)

SuffixPdf == <<".", "p", "d", "f">>
SuffixOrgPdf == <<".", "o", "r", "g", ".", "p", "d", "f">>

\* [f for f in os.listdir(pdf_folder) if f.endswith('.pdf') and not f.endswith('.org.pdf')]
RECURSIVE FilterPdf(_)
FilterPdf(listing) ==
    IF listing = <<>> THEN <<>>
    ELSE (IF EndsWith(Head(listing), SuffixPdf) /\ ~EndsWith(Head(listing), SuffixOrgPdf)
          THEN <<Head(listing)>> ELSE <<>>)
         \o FilterPdf(Tail(listing))

NoLegacyDb == [exists |-> FALSE, rows |-> <<>>]

Init ==
    /\ now \in NowSet
    /\ tables = << >>
    /\ index_exists = FALSE
    /\ ledger_exists = FALSE
    /\ ledger = {}
    /\ pc = "idle"
    /\ run_id = NoRun
    /\ reset = FALSE
    /\ pdf_files = <<>>
    /\ idx = 0
    /\ pdf_date = NoDate
    /\ decedents = <<>>
    /\ di = 0
    /\ to_process = <<>>
    /\ total_matches = 0
    /\ reports = <<>>
    /\ runs = 0
    /\ ev = Event("none", <<>>, <<>>, NoRun, FALSE)
    /\ calls = 0
    /\ hist = {}
    /\ dropped = {}
    /\ called = {}
    /\ skipped = {}
    /\ unreported = {}
    /\ processed = <<>>
    /\ queries = <<>>
    /\ workers = << >>
    /\ voters_db = NoLegacyDb
    /\ probe = NoProbe

\* time passes; the clock is read at the start of a run and for each file
Tick ==
    /\ UNCHANGED otherVars
    /\ pc \in {"idle", "file"}
    /\ \E t \in NowSet : Instant(t) > Instant(now) /\ now' = t
    /\ UNCHANGED << tables, index_exists, ledger_exists, ledger, pc, run_id, reset,
                    pdf_files, idx, pdf_date, decedents, di, to_process, total_matches,
                    reports, runs, ev, calls, hist, dropped, called, skipped, unreported, processed, queries >>

\* variant: the ledger is initialized before the load is checked, so that a
\* requested reset is applied in a run whose load fails
mutant_MainLoadFails_resets ==
    /\ UNCHANGED otherVars
    /\ pc = "idle" /\ runs < MaxRuns
    /\ \E voter_file \in VoterFiles, reset_in \in BOOLEAN :
         LET load == load_voter_registration_to_sqlite(voter_file, tables, index_exists, now)
             init == initialize_decedents_table(ledger_exists, ledger, reset_in)
         IN  /\ load.conn = "none"
             /\ reset' = reset_in
             /\ tables' = load.tables
             /\ index_exists' = load.index
             /\ ledger_exists' = init.exists
             /\ ledger' = init.ledger
             /\ ev' = Event("load_failed", voter_file.name, <<>>, RunIdOf(now), FALSE)
    /\ run_id' = RunIdOf(now)
    /\ runs' = runs + 1
    /\ UNCHANGED << now, pc, pdf_files, idx, loopVars,
                    total_matches, reports, ghostVars, processed, queries >>

\* main, lines 366-374: the voter file cannot be loaded, the run returns
MainLoadFails ==
    /\ UNCHANGED otherVars
    /\ pc = "idle" /\ runs < MaxRuns
    /\ \E voter_file \in VoterFiles, reset_in \in BOOLEAN :
         LET load == load_voter_registration_to_sqlite(voter_file, tables, index_exists, now)
         IN  /\ load.conn = "none"
             /\ reset' = reset_in
             /\ tables' = load.tables
             /\ index_exists' = load.index
             /\ ev' = Event("load_failed", voter_file.name, <<>>, RunIdOf(now), FALSE)
    /\ run_id' = RunIdOf(now)
    /\ runs' = runs + 1
    /\ UNCHANGED << now, ledger_exists, ledger, pc, pdf_files, idx, loopVars,
                    total_matches, reports, ghostVars, processed, queries >>

\* main, line 371: the load raises an exception main does not catch
MainLoadRaises ==
    /\ UNCHANGED otherVars
    /\ pc = "idle" /\ runs < MaxRuns
    /\ \E voter_file \in VoterFiles, reset_in \in BOOLEAN :
         LET load == load_voter_registration_to_sqlite(voter_file, tables, index_exists, now)
         IN  /\ load.conn = "raise"
             /\ reset' = reset_in
             /\ tables' = load.tables
             /\ index_exists' = load.index
             /\ ev' = Event("load_raised", voter_file.name, <<>>, RunIdOf(now), FALSE)
    /\ run_id' = RunIdOf(now)
    /\ runs' = runs + 1
    /\ UNCHANGED << now, ledger_exists, ledger, pc, pdf_files, idx, loopVars,
                    total_matches, reports, ghostVars, processed, queries >>

\* main, lines 366-393: load, initialize the ledger, list and sort the folder
MainBegin ==
    /\ UNCHANGED otherVars
    /\ pc = "idle" /\ runs < MaxRuns
    /\ \E voter_file \in VoterFiles, reset_in \in BOOLEAN, listing \in Listings :
         LET load == load_voter_registration_to_sqlite(voter_file, tables, index_exists, now)
             init == initialize_decedents_table(ledger_exists, ledger, reset_in)
             files == FilterPdf(listing)
         IN  /\ load.conn = "conn"
             /\ reset' = reset_in
             /\ tables' = load.tables
             /\ index_exists' = load.index
             /\ ledger_exists' = init.exists
             /\ ledger' = init.ledger
             /\ hist' = IF reset_in THEN {} ELSE hist
             /\ dropped' = IF reset_in THEN {e.case_number : e \in ledger} ELSE dropped
             /\ called' = IF reset_in THEN {} ELSE called
             /\ skipped' = skipped
             /\ unreported' = IF reset_in THEN {} ELSE unreported
             /\ IF files = <<>>
                THEN /\ pc' = "idle"
                     /\ pdf_files' = <<>>
                     /\ idx' = 0
                     /\ ev' = Event("no_files", voter_file.name, <<>>, RunIdOf(now), reset_in)
                ELSE /\ pc' = "file"
                     /\ pdf_files' = SortByDate(files)
                     /\ idx' = 1
                     /\ ev' = Event("begin", voter_file.name, <<>>, RunIdOf(now), reset_in)
    /\ run_id' = RunIdOf(now)
    /\ runs' = runs + 1
    /\ total_matches' = 0
    /\ reports' = <<>>
    /\ processed' = <<>>
    /\ UNCHANGED << now, loopVars, calls, queries >>

NextFile ==
    /\ idx' = idx + 1
    /\ pc' = "file"

\* main, lines 396-401: no date in the file name
SkipNoDate ==
    /\ UNCHANGED otherVars
    /\ pc = "file" /\ idx <= Len(pdf_files)
    /\ extract_date_from_filename(pdf_files[idx]) = NoDate
    /\ NextFile
    /\ skipped' = skipped \cup {pdf_files[idx]}
    /\ unreported' = unreported
    /\ ev' = Event("skip_no_date", pdf_files[idx], <<>>, run_id, FALSE)
    /\ UNCHANGED << now, dbVars, run_id, reset, pdf_files, loopVars, total_matches,
                    reports, runs, calls, hist, dropped, called, processed, queries >>

mutant_SkipRecent_records ==
    /\ UNCHANGED otherVars
    /\ pc = "file" /\ idx <= Len(pdf_files)
    /\ LET d == extract_date_from_filename(pdf_files[idx])
           recs == extract_names_and_ages_from_pdf(Pdf(pdf_files[idx]))
       IN  /\ d # NoDate
           /\ ~is_older_than_two_months(d, now)
           /\ ledger' = ledger \cup {LedgerEntry(recs[i], d, run_id) : i \in 1..Len(recs)}
    /\ NextFile
    /\ skipped' = skipped \cup {pdf_files[idx]}
    /\ unreported' = unreported
    /\ ev' = Event("skip_recent", pdf_files[idx], <<>>, run_id, FALSE)
    /\ UNCHANGED << now, tables, index_exists, ledger_exists, run_id, reset, pdf_files,
                    loopVars, total_matches, reports, runs, calls, hist, dropped, called,
                    processed, queries >>

\* main, lines 403-405: the file is not older than two months
SkipRecent ==
    /\ UNCHANGED otherVars
    /\ pc = "file" /\ idx <= Len(pdf_files)
    /\ LET d == extract_date_from_filename(pdf_files[idx])
       IN  /\ d # NoDate
           /\ ~is_older_than_two_months(d, now)
    /\ NextFile
    /\ skipped' = skipped \cup {pdf_files[idx]}
    /\ unreported' = unreported
    /\ ev' = Event("skip_recent", pdf_files[idx], <<>>, run_id, FALSE)
    /\ UNCHANGED << now, dbVars, run_id, reset, pdf_files, loopVars, total_matches,
                    reports, runs, calls, hist, dropped, called, processed, queries >>

Eligible(filename, now_dt) ==
    LET d == extract_date_from_filename(filename)
    IN  d # NoDate /\ is_older_than_two_months(d, now_dt)

\* main, lines 407-411: extraction finds no record
ExtractNothing ==
    /\ UNCHANGED otherVars
    /\ pc = "file" /\ idx <= Len(pdf_files)
    /\ Eligible(pdf_files[idx], now)
    /\ extract_names_and_ages_from_pdf(Pdf(pdf_files[idx])) = <<>>
    /\ NextFile
    /\ skipped' = skipped \cup {pdf_files[idx]}
    /\ unreported' = unreported
    /\ pdf_date' = extract_date_from_filename(pdf_files[idx])
    /\ decedents' = <<>>
    /\ processed' = Append(processed, pdf_files[idx])
    /\ ev' = Event("extract", pdf_files[idx], <<>>, run_id, FALSE)
    /\ UNCHANGED << now, dbVars, run_id, reset, pdf_files, di, to_process,
                    total_matches, reports, runs, calls, hist, dropped, called, queries >>

\* main, line 408: pdfplumber fails on the file and the error leaves
\* extract_names_and_ages_from_pdf (the except clause names
\* pdfplumber.PDFSyntaxError, which the installed pdfplumber may not expose, and
\* catches no other class of error) and main, which has no handler: the run ends
ExtractRaises ==
    /\ UNCHANGED otherVars
    /\ pc = "file" /\ idx <= Len(pdf_files)
    /\ Eligible(pdf_files[idx], now)
    /\ RaisesPDFSyntaxError(Pdf(pdf_files[idx]))
    /\ pc' = "idle"
    /\ pdf_date' = extract_date_from_filename(pdf_files[idx])
    /\ processed' = Append(processed, pdf_files[idx])
    /\ ev' = Event("extract_raised", pdf_files[idx], <<>>, run_id, FALSE)
    /\ UNCHANGED << now, dbVars, run_id, reset, pdf_files, idx, decedents, di,
                    to_process, total_matches, reports, runs, ghostVars, queries >>

\* main, lines 407-414: extraction finds records, the filter loop starts
Extract ==
    /\ UNCHANGED otherVars
    /\ pc = "file" /\ idx <= Len(pdf_files)
    /\ Eligible(pdf_files[idx], now)
    /\ LET recs == extract_names_and_ages_from_pdf(Pdf(pdf_files[idx]))
       IN  /\ recs # <<>>
           /\ decedents' = recs
    /\ pdf_date' = extract_date_from_filename(pdf_files[idx])
    /\ di' = 1
    /\ to_process' = <<>>
    /\ pc' = "dedup"
    /\ processed' = Append(processed, pdf_files[idx])
    /\ ev' = Event("extract", pdf_files[idx], <<>>, run_id, TRUE)
    /\ UNCHANGED << now, dbVars, run_id, reset, pdf_files, idx, total_matches,
                    reports, runs, ghostVars, queries >>

\* main, lines 415-421: one call of process_decedent of the filter loop
ProcessDecedent ==
    /\ UNCHANGED otherVars
    /\ pc = "dedup" /\ di <= Len(decedents)
    /\ LET decedent == decedents[di]
           r == process_decedent(ledger, decedent, pdf_date, run_id)
           kept == IF r.ret
                   THEN Append(to_process, [name |-> decedent.name, age |-> decedent.age])
                   ELSE to_process
       IN  /\ ledger' = r.ledger
           /\ to_process' = kept
           /\ di' = di + 1
           /\ ev' = Event("call", pdf_files[idx], decedent.case_number, run_id, r.ret)
           /\ hist' = IF r.ret THEN hist \cup {<<decedent.case_number, run_id>>} ELSE hist
           /\ called' = called \cup {decedent.case_number}
           /\ skipped' = skipped
           /\ unreported' = IF r.ret THEN unreported \cup {decedent.case_number}
                             ELSE unreported
           /\ UNCHANGED dropped
           /\ IF di < Len(decedents) THEN pc' = "dedup" /\ idx' = idx
              ELSE IF kept # <<>> THEN pc' = "match" /\ idx' = idx
              ELSE NextFile
    /\ calls' = 1 - calls
    /\ UNCHANGED << now, tables, index_exists, ledger_exists, run_id, reset, pdf_files,
                    pdf_date, decedents, total_matches, reports, runs, processed,
                    queries >>

\* main, lines 423-427: match the new cases and report
Match ==
    /\ UNCHANGED otherVars
    /\ pc = "match"
    /\ LET r == match_decedents_with_voters(to_process, tables, pdf_date.year)
       IN  /\ queries' = r.queries
           /\ total_matches' = total_matches + Len(r.matches)
           /\ reports' = Append(reports, [file |-> pdf_files[idx],
                                          date |-> DateStr(pdf_date),
                                          matches |-> r.matches])
    /\ NextFile
    /\ unreported' = unreported \ {e.case_number : e \in
                                      {x \in ledger : /\ x.run_id = run_id
                                                      /\ x.first_seen_date = DateStr(pdf_date)}}
    /\ ev' = Event("match", pdf_files[idx], <<>>, run_id, TRUE)
    /\ UNCHANGED << now, dbVars, run_id, reset, pdf_files, loopVars, runs, calls, hist, dropped,
                    called, skipped,
                    processed >>

mutant_MatchStops_rollback ==
    /\ UNCHANGED otherVars
    /\ pc = "match"
    /\ pc' = "idle"
    /\ ledger' = {e \in ledger :
                    \/ e.run_id # run_id
                    \/ \A i \in 1..Len(decedents) :
                          e.case_number # decedents[i].case_number}
    /\ ev' = Event("match_stopped", pdf_files[idx], <<>>, run_id, FALSE)
    /\ UNCHANGED << now, tables, index_exists, ledger_exists, run_id, reset, pdf_files,
                    idx, loopVars, total_matches, reports, runs, ghostVars, processed,
                    queries >>

\* main, lines 423-427: the run stops during matching or reporting (the
\* process is interrupted or killed); the rows process_decedent committed stay
MatchStops ==
    /\ UNCHANGED otherVars
    /\ pc = "match"
    /\ pc' = "idle"
    /\ ev' = Event("match_stopped", pdf_files[idx], <<>>, run_id, FALSE)
    /\ UNCHANGED << now, dbVars, run_id, reset, pdf_files, idx, loopVars,
                    total_matches, reports, runs, ghostVars, processed, queries >>

\* main, lines 429-448: the summary, the run ends
Summary ==
    /\ UNCHANGED otherVars
    /\ pc = "file" /\ idx > Len(pdf_files)
    /\ pc' = "idle"
    /\ ev' = Event("summary", <<>>, <<>>, run_id, TRUE)
    /\ UNCHANGED << now, dbVars, run_id, reset, pdf_files, idx, loopVars, total_matches,
                    reports, runs, ghostVars, processed, queries >>

Next ==
    \/ Tick
    \/ MainLoadFails
    \/ MainLoadRaises
    \/ MainBegin
    \/ SkipNoDate
    \/ SkipRecent
    \/ ExtractNothing
    \/ ExtractRaises
    \/ Extract
    \/ ProcessDecedent
    \/ Match
    \/ MatchStops
    \/ Summary

Spec == Init /\ [][Next]_vars

(***************************************************************************)
(* Properties of the ledger.                                               *)
(***************************************************************************)
\* a step that is a call of process_decedent; ev' describes the call
CallStep == calls' # calls

\* a step that ran initialize_decedents_table with reset = True
ResetStep == runs' # runs /\ ev'.op \in {"begin", "no_files"} /\ reset'

\* C1: once process_decedent has returned True for a case number under one run
\* id, every later call for that case number under a different run id returns
\* False, as long as the ledger has not been reset.
C1_CrossRunSuppression ==
    [][ CallStep =>
          ((\E p \in hist : p[1] = ev'.case /\ p[2] # ev'.run) => ~ev'.ret) ]_vars

\* a call in a later run was refused for a case a previous run had processed
C1_Witness ==
    /\ ev.op = "call"
    /\ ~ev.ret
    /\ \E p \in hist : p[1] = ev.case /\ p[2] # ev.run

\* C2: for a case number without ledger entry the first call under a run id
\* returns True, and every later call with the same case number and run id
\* returns False.
C2_IntraRunSuppression ==
    [][ CallStep =>
          /\ (SelectByCase(ledger, ev'.case) = {} => ev'.ret)
          /\ (<<ev'.case, ev'.run>> \in hist => ~ev'.ret) ]_vars

\* a second call for the same case number in the same run was refused
C2_Witness ==
    /\ ev.op = "call"
    /\ ~ev.ret
    /\ <<ev.case, ev.run>> \in hist

\* C3: process_decedent returns True exactly when the ledger holds no entry
\* for the case number under any run id, and a call that returns True adds
\* exactly one entry, keyed (case_number, run_id).
C3_ReturnsTrueIffUnseen ==
    [][ CallStep =>
          /\ ev'.ret <=> (\A e \in ledger : e.case_number # ev'.case)
          /\ ev'.ret =>
               \E e \in ledger' :
                  /\ e \notin ledger
                  /\ ledger' = ledger \cup {e}
                  /\ e.case_number = ev'.case
                  /\ e.run_id = ev'.run ]_vars

\* a call returned True on a ledger that already held other cases
C3_Witness ==
    /\ ev.op = "call"
    /\ ev.ret
    /\ Cardinality(ledger) >= 2
    /\ Cardinality({e \in ledger : e.case_number = ev.case}) = 1

\* C5: without reset the ledger only grows: no entry is removed or changed.
C5_LedgerOnlyGrows ==
    [][ ResetStep \/ ledger \subseteq ledger' ]_vars

\* a run started without reset on a ledger that held entries, and added to it
C5_Witness ==
    /\ ~reset
    /\ \E e1, e2 \in ledger : e1.run_id # e2.run_id

\* C6: a run with reset = True empties the ledger, and the first call for a
\* case number recorded before the reset returns True again.
C6_ResetDropsHistory ==
    [][ /\ ResetStep => (ledger' = {} /\ ledger_exists')
        /\ (CallStep /\ ev'.case \in dropped \ called) => ev'.ret ]_vars

\* a case recorded before the reset was processed again after it
C6_Witness ==
    /\ reset
    /\ ev.op = "call"
    /\ ev.ret
    /\ ev.case \in dropped

(***************************************************************************)
(* Concurrent callers of process_decedent.  Each worker has its own        *)
(* connection to voters.db; the two SELECTs and the INSERT with its commit *)
(* are separate statements, and statements of different workers            *)
(* interleave.  A worker is [pc, run, decedent, previous_result,           *)
(* current_run_result, trues, n]: trues holds the case numbers its calls   *)
(* returned True for, n counts its calls.                                  *)
(***************************************************************************)
NumWorkers == 2
MaxWorkerCalls == 2

Workers == 1..NumWorkers

ConcRunIds == { <<2024, 3, 15, 0>>, <<2024, 4, 2, 0>> }

ConcDate == [year |-> 2024, month |-> 1, day |-> 15, tick |-> 0]

ConcDecedents == SeqToSet(extract_names_and_ages_from_pdf(Pdf(FileJan)))

InitConc ==
    /\ now = [year |-> 2024, month |-> 4, day |-> 2, tick |-> 0]
    /\ tables = << >>
    /\ index_exists = FALSE
    /\ ledger_exists = TRUE
    /\ ledger = {}
    /\ pc = "idle"
    /\ run_id = NoRun
    /\ reset = FALSE
    /\ pdf_files = <<>>
    /\ idx = 0
    /\ pdf_date = ConcDate
    /\ decedents = <<>>
    /\ di = 0
    /\ to_process = <<>>
    /\ total_matches = 0
    /\ reports = <<>>
    /\ runs = 0
    /\ ev = Event("none", <<>>, <<>>, NoRun, FALSE)
    /\ calls = 0
    /\ hist = {}
    /\ dropped = {}
    /\ called = {}
    /\ skipped = {}
    /\ unreported = {}
    /\ processed = <<>>
    /\ queries = <<>>
    /\ voters_db = NoLegacyDb
    /\ probe = NoProbe
    /\ workers \in [Workers ->
                     { [pc |-> "idle", run |-> r, decedent |-> CHOOSE d \in ConcDecedents : TRUE,
                        previous_result |-> FALSE, current_run_result |-> FALSE,
                        trues |-> {}, n |-> 0] : r \in ConcRunIds }]

concFrame ==
    << now, tables, index_exists, ledger_exists, pc, run_id, reset, pdf_files, idx,
       pdf_date, decedents, di, to_process, total_matches, reports, runs, calls,
       dropped, called, skipped, unreported, processed, queries, voters_db, probe >>

\* process_decedent is entered, line 324
WCall(w) ==
    /\ workers[w].pc = "idle" /\ workers[w].n < MaxWorkerCalls
    /\ \E d \in ConcDecedents :
         workers' = [workers EXCEPT ![w].pc = "select_previous", ![w].decedent = d,
                                    ![w].n = @ + 1]
    /\ UNCHANGED << ledger, ev, hist, concFrame >>

\* lines 329-336: SELECT ... WHERE case_number = ?
WSelectPrevious(w) ==
    /\ workers[w].pc = "select_previous"
    /\ workers' = [workers EXCEPT
                     ![w].previous_result =
                         SelectByCase(ledger, workers[w].decedent.case_number) # {},
                     ![w].pc = "select_current"]
    /\ UNCHANGED << ledger, ev, hist, concFrame >>

\* lines 339-345: SELECT ... WHERE case_number = ? AND run_id = ?
WSelectCurrent(w) ==
    /\ workers[w].pc = "select_current"
    /\ workers' = [workers EXCEPT
                     ![w].current_run_result =
                         SelectByCaseAndRun(ledger, workers[w].decedent.case_number,
                                            workers[w].run) # {},
                     ![w].pc = "decide"]
    /\ UNCHANGED << ledger, ev, hist, concFrame >>

\* lines 347-354: return False
WReturnFalse(w) ==
    /\ workers[w].pc = "decide"
    /\ workers[w].current_run_result \/ workers[w].previous_result
    /\ workers' = [workers EXCEPT ![w].pc = "idle"]
    /\ ev' = Event("call", <<>>, workers[w].decedent.case_number, workers[w].run, FALSE)
    /\ UNCHANGED << ledger, hist, concFrame >>

\* lines 356-364: INSERT, commit, return True
WInsert(w) ==
    /\ workers[w].pc = "decide"
    /\ ~workers[w].current_run_result /\ ~workers[w].previous_result
    /\ LET ins == InsertEntry(ledger, LedgerEntry(workers[w].decedent, pdf_date,
                                                  workers[w].run))
       IN  /\ ins.ok
           /\ ledger' = ins.ledger
    /\ workers' = [workers EXCEPT ![w].pc = "idle",
                                  ![w].trues = @ \cup {workers[w].decedent.case_number}]
    /\ ev' = Event("call", <<>>, workers[w].decedent.case_number, workers[w].run, TRUE)
    /\ hist' = hist \cup {<<workers[w].decedent.case_number, workers[w].run>>}
    /\ UNCHANGED concFrame

\* lines 357-362: the INSERT violates the primary key, sqlite3.IntegrityError
WInsertRaises(w) ==
    /\ workers[w].pc = "decide"
    /\ ~workers[w].current_run_result /\ ~workers[w].previous_result
    /\ ~InsertEntry(ledger, LedgerEntry(workers[w].decedent, pdf_date,
                                        workers[w].run)).ok
    /\ workers' = [workers EXCEPT ![w].pc = "raised"]
    /\ ev' = Event("raised", <<>>, workers[w].decedent.case_number, workers[w].run, FALSE)
    /\ UNCHANGED << ledger, hist, concFrame >>

NextConc ==
    \E w \in Workers :
        \/ WCall(w)
        \/ WSelectPrevious(w)
        \/ WSelectCurrent(w)
        \/ WReturnFalse(w)
        \/ WInsert(w)
        \/ WInsertRaises(w)

SpecConc == InitConc /\ [][NextConc]_vars

\* C4: when two workers interleave the statements of process_decedent for the
\* same case number, at most one of the calls returns True.
C4_AtMostOneWorkerDecides ==
    \A w1, w2 \in Workers :
        w1 # w2 => workers[w1].trues \cap workers[w2].trues = {}

(***************************************************************************)
(* main() of find-decedents.py: the orchestrator without ledger.  Its      *)
(* voters.db holds one table, voters; voters_db is [exists, rows].         *)
(***************************************************************************)
\* load_voter_registration_to_sqlite of find-decedents.py: [conn, db]
legacy_load_voter_registration_to_sqlite(voter_file, db) ==
    IF db.exists THEN [conn |-> "conn", db |-> db]
    ELSE IF voter_file.state \in {"missing", "empty"} THEN [conn |-> "none", db |-> db]
    ELSE IF voter_file.state = "malformed" THEN [conn |-> "raise", db |-> db]
    ELSE [conn |-> "conn", db |-> [exists |-> TRUE, rows |-> LoadRows(voter_file.rows)]]

\* [f for f in os.listdir(pdf_folder) if f.lower().endswith('.pdf')]
RECURSIVE LegacyFilterPdf(_)
LegacyFilterPdf(listing) ==
    IF listing = <<>> THEN <<>>
    ELSE (IF EndsWith(Lower(Head(listing)), SuffixPdf) THEN <<Head(listing)>> ELSE <<>>)
         \o LegacyFilterPdf(Tail(listing))

\* the (name, age) tuples find-decedents.py extracts
NamesAndAges(records) ==
    [i \in 1..Len(records) |-> [name |-> records[i].name, age |-> records[i].age]]

legacyFrame ==
    << tables, index_exists, ledger_exists, ledger, run_id, reset, di, to_process,
       calls, hist, dropped, called, skipped, unreported, workers, probe >>

InitLegacy ==
    /\ now \in NowSet
    /\ tables = << >>
    /\ index_exists = FALSE
    /\ ledger_exists = FALSE
    /\ ledger = {}
    /\ pc = "idle"
    /\ run_id = NoRun
    /\ reset = FALSE
    /\ pdf_files = <<>>
    /\ idx = 0
    /\ pdf_date = NoDate
    /\ decedents = <<>>
    /\ di = 0
    /\ to_process = <<>>
    /\ total_matches = 0
    /\ reports = <<>>
    /\ runs = 0
    /\ ev = Event("none", <<>>, <<>>, NoRun, FALSE)
    /\ calls = 0
    /\ hist = {}
    /\ dropped = {}
    /\ called = {}
    /\ skipped = {}
    /\ unreported = {}
    /\ processed = <<>>
    /\ queries = <<>>
    /\ workers = << >>
    /\ voters_db = NoLegacyDb
    /\ probe = NoProbe

LegacyTick ==
    /\ pc \in {"idle", "file"}
    /\ \E t \in NowSet : Instant(t) > Instant(now) /\ now' = t
    /\ UNCHANGED << legacyFrame, voters_db, pc, pdf_files, idx, pdf_date, decedents,
                    total_matches, reports, runs, ev, processed, queries >>

\* main, lines 260-263: the voter file cannot be loaded (None is returned, or
\* the load raises an exception main does not catch)
LegacyLoadFails ==
    /\ pc = "idle" /\ runs < MaxRuns
    /\ \E voter_file \in VoterFiles :
         LET load == legacy_load_voter_registration_to_sqlite(voter_file, voters_db)
         IN  /\ load.conn # "conn"
             /\ ev' = Event(IF load.conn = "none" THEN "load_failed" ELSE "load_raised",
                            <<>>, <<>>, NoRun, FALSE)
    /\ runs' = runs + 1
    /\ UNCHANGED << legacyFrame, voters_db, now, pc, pdf_files, idx, pdf_date, decedents,
                    total_matches, reports, processed, queries >>

\* main, lines 260-273: load and list the folder
LegacyBegin ==
    /\ pc = "idle" /\ runs < MaxRuns
    /\ \E voter_file \in VoterFiles, listing \in Listings :
         LET load == legacy_load_voter_registration_to_sqlite(voter_file, voters_db)
             files == LegacyFilterPdf(listing)
         IN  /\ load.conn = "conn"
             /\ voters_db' = load.db
             /\ pdf_files' = files
             /\ IF files = <<>>
                THEN /\ pc' = "idle" /\ idx' = 0
                     /\ ev' = Event("no_files", <<>>, <<>>, NoRun, FALSE)
                ELSE /\ pc' = "file" /\ idx' = 1
                     /\ ev' = Event("begin", <<>>, <<>>, NoRun, FALSE)
    /\ runs' = runs + 1
    /\ total_matches' = 0
    /\ reports' = <<>>
    /\ processed' = <<>>
    /\ UNCHANGED << legacyFrame, now, pdf_date, decedents, queries >>

\* main, lines 279-282
LegacySkipNoDate ==
    /\ pc = "file" /\ idx <= Len(pdf_files)
    /\ extract_date_from_filename(pdf_files[idx]) = NoDate
    /\ NextFile
    /\ ev' = Event("skip_no_date", pdf_files[idx], <<>>, NoRun, FALSE)
    /\ UNCHANGED << legacyFrame, voters_db, now, pdf_files, pdf_date, decedents,
                    total_matches, reports, runs, processed, queries >>

\* main, lines 284-286
LegacySkipRecent ==
    /\ pc = "file" /\ idx <= Len(pdf_files)
    /\ LET d == extract_date_from_filename(pdf_files[idx])
       IN  d # NoDate /\ ~is_older_than_two_months(d, now)
    /\ NextFile
    /\ ev' = Event("skip_recent", pdf_files[idx], <<>>, NoRun, FALSE)
    /\ UNCHANGED << legacyFrame, voters_db, now, pdf_files, pdf_date, decedents,
                    total_matches, reports, runs, processed, queries >>

\* main, lines 288-293: extraction finds no record
LegacyExtractNothing ==
    /\ pc = "file" /\ idx <= Len(pdf_files)
    /\ Eligible(pdf_files[idx], now)
    /\ extract_names_and_ages_from_pdf(Pdf(pdf_files[idx])) = <<>>
    /\ NextFile
    /\ pdf_date' = extract_date_from_filename(pdf_files[idx])
    /\ decedents' = <<>>
    /\ processed' = Append(processed, pdf_files[idx])
    /\ ev' = Event("extract", pdf_files[idx], <<>>, NoRun, FALSE)
    /\ UNCHANGED << legacyFrame, voters_db, now, pdf_files, total_matches, reports,
                    runs, queries >>

\* main, line 288: the error of pdfplumber leaves the extractor and main
LegacyExtractRaises ==
    /\ pc = "file" /\ idx <= Len(pdf_files)
    /\ Eligible(pdf_files[idx], now)
    /\ RaisesPDFSyntaxError(Pdf(pdf_files[idx]))
    /\ pc' = "idle"
    /\ pdf_date' = extract_date_from_filename(pdf_files[idx])
    /\ processed' = Append(processed, pdf_files[idx])
    /\ ev' = Event("extract_raised", pdf_files[idx], <<>>, NoRun, FALSE)
    /\ UNCHANGED << legacyFrame, voters_db, now, pdf_files, idx, decedents,
                    total_matches, reports, runs, queries >>

\* main, lines 288-303: extract, match every record and report
LegacyExtractAndMatch ==
    /\ pc = "file" /\ idx <= Len(pdf_files)
    /\ Eligible(pdf_files[idx], now)
    /\ LET d == extract_date_from_filename(pdf_files[idx])
           recs == NamesAndAges(extract_names_and_ages_from_pdf(Pdf(pdf_files[idx])))
           r == MatchLoop(recs, voters_db.rows, d.year)
       IN  /\ recs # <<>>
           /\ pdf_date' = d
           /\ decedents' = recs
           /\ queries' = r.queries
           /\ total_matches' = total_matches + Len(r.matches)
           /\ reports' = Append(reports, [file |-> pdf_files[idx], date |-> DateStr(d),
                                          matches |-> r.matches])
    /\ NextFile
    /\ processed' = Append(processed, pdf_files[idx])
    /\ ev' = Event("match", pdf_files[idx], <<>>, NoRun, TRUE)
    /\ UNCHANGED << legacyFrame, voters_db, now, pdf_files, runs >>

\* main, lines 305-314
LegacySummary ==
    /\ pc = "file" /\ idx > Len(pdf_files)
    /\ pc' = "idle"
    /\ ev' = Event("summary", <<>>, <<>>, NoRun, TRUE)
    /\ UNCHANGED << legacyFrame, voters_db, now, pdf_files, idx, pdf_date, decedents,
                    total_matches, reports, runs, processed, queries >>

NextLegacy ==
    \/ LegacyTick
    \/ LegacyLoadFails
    \/ LegacyBegin
    \/ LegacySkipNoDate
    \/ LegacySkipRecent
    \/ LegacyExtractNothing
    \/ LegacyExtractRaises
    \/ LegacyExtractAndMatch
    \/ LegacySummary

SpecLegacy == InitLegacy /\ [][NextLegacy]_vars

(***************************************************************************)
(* Properties of the orchestrator.                                         *)
(***************************************************************************)
DateOf(filename) == extract_date_from_filename(filename)

C7_Witness ==
    /\ Len(processed) >= 2
    /\ Instant(DateOf(processed[1])) < Instant(DateOf(processed[2]))

\* the name holds a run of 8 digits and the leftmost one is a date MMDDYYYY
ValidDateName(f) ==
    \E i \in 1..Len(f) :
        /\ AllDigits(f, i, 8)
        /\ \A j \in 1..(i - 1) : ~AllDigits(f, j, 8)
        /\ LET mm == ToInt(SubSeq(f, i, i + 1))
               dd == ToInt(SubSeq(f, i + 2, i + 3))
               yy == ToInt(SubSeq(f, i + 4, i + 7))
           IN  mm \in 1..12 /\ yy >= 1 /\ dd \in 1..DaysInMonth(yy, mm)

\* the instant a run id stands for: the start of its second
RunInstant(rid) ==
    ToOrdinal([year |-> rid[1], month |-> rid[2], day |-> rid[3]]) * TicksPerDay
    + rid[4] * TicksPerSecond

\* C8: a source without a valid MMDDYYYY date in its name is never extracted,
\* filtered through the ledger, matched or reported, and the dated sources of
\* the batch that were old enough when the run started are all extracted.
C8_UndatedSourcesSkipped ==
    /\ \A i \in 1..Len(processed) : ValidDateName(processed[i])
    /\ \A i \in 1..Len(reports) : ValidDateName(reports[i].file)
    /\ ev.op \in {"extract", "call", "match"} => ValidDateName(ev.file)
    /\ ev.op = "summary" =>
         \A k \in 1..Len(pdf_files) :
            (/\ ValidDateName(pdf_files[k])
             /\ Instant(DateOf(pdf_files[k])) + 60 * TicksPerDay < RunInstant(run_id))
            => \E i \in 1..Len(processed) : processed[i] = pdf_files[k]

\* a run ended that skipped a name with an invalid month and a name without
\* digits, and extracted a dated source of the same batch
C8_Witness ==
    /\ ev.op = "summary"
    /\ \E k \in 1..Len(pdf_files) : pdf_files[k] = FileBadMonth
    /\ \E k \in 1..Len(pdf_files) : pdf_files[k] = FileNoDate
    /\ processed = <<FileFeb>>

\* a step of the loop of main on the file pdf_files[idx]
FileStep ==
    /\ pc = "file" /\ idx <= Len(pdf_files)
    /\ now' = now
    /\ (idx' # idx \/ pc' # pc)

\* C9: a source whose date is not strictly earlier than now minus 60 days is
\* skipped without extraction, ledger change, matching or report; a source
\* strictly older than that is extracted.
C9_RecentSourcesSkipped ==
    [][ (FileStep /\ DateOf(pdf_files[idx]) # NoDate) =>
          IF Instant(DateOf(pdf_files[idx])) >= Instant(now) - 60 * TicksPerDay
          THEN /\ processed' = processed
               /\ reports' = reports
               /\ queries' = queries
               /\ ledger' = ledger
               /\ pc' = "file" /\ idx' = idx + 1
          ELSE processed' = Append(processed, pdf_files[idx]) ]_vars

\* the source dated exactly 60 days before the clock's midnight was skipped
C9_Witness ==
    /\ ev.op = "skip_recent"
    /\ ev.file = FileJan
    /\ now = [year |-> 2024, month |-> 3, day |-> 15, tick |-> 0]

(***************************************************************************)
(* match_decedents_with_voters of the three scripts, applied to drawn      *)
(* (name, age) pairs and PDF years.                                        *)
(***************************************************************************)
Alphabet ==
    << "0", "1", "2", "3", "4", "5", "6", "7", "8", "9",
       "a", "b", "c", "d", "e", "f", "g", "h", "i", "j", "k", "l", "m",
       "n", "o", "p", "q", "r", "s", "t", "u", "v", "w", "x", "y", "z" >>

Rank(c) == CHOOSE i \in 1..Len(Alphabet) : Alphabet[i] = c

\* utils.full_process: non-alphanumerics to spaces, lower case, strip
full_process(s) ==
    Strip([i \in 1..Len(s) |->
             IF \E k \in 1..Len(Alphabet) : Alphabet[k] = LowerChar(s[i])
             THEN LowerChar(s[i]) ELSE " "])

\* str < str on tokens of full_process
RECURSIVE TokenLess(_, _)
TokenLess(a, b) ==
    IF b = <<>> THEN FALSE
    ELSE IF a = <<>> THEN TRUE
    ELSE IF Head(a) # Head(b) THEN Rank(Head(a)) < Rank(Head(b))
    ELSE TokenLess(Tail(a), Tail(b))

\* sorted(tokens) of a set of tokens
RECURSIVE SortTokens(_)
SortTokens(S) ==
    IF S = {} THEN <<>>
    ELSE LET m == CHOOSE t \in S : \A u \in S \ {t} : TokenLess(t, u)
         IN  <<m>> \o SortTokens(S \ {m})

Max3(a, b, c) ==
    LET ab == IF a >= b THEN a ELSE b
    IN  IF ab >= c THEN ab ELSE c

\* fuzz.token_set_ratio
token_set_ratio(s1, s2) ==
    LET p1 == full_process(s1)
        p2 == full_process(s2)
        tokens1 == SeqToSet(Split(p1))
        tokens2 == SeqToSet(Split(p2))
        sorted_sect == JoinSp(SortTokens(tokens1 \cap tokens2))
        sorted_1to2 == JoinSp(SortTokens(tokens1 \ tokens2))
        sorted_2to1 == JoinSp(SortTokens(tokens2 \ tokens1))
        combined_1to2 == Strip(sorted_sect \o <<" ">> \o sorted_1to2)
        combined_2to1 == Strip(sorted_sect \o <<" ">> \o sorted_2to1)
    IN  IF p1 = <<>> \/ p2 = <<>> THEN 0
        ELSE Max3(fuzz_ratio(sorted_sect, combined_1to2),
                  fuzz_ratio(sorted_sect, combined_2to1),
                  fuzz_ratio(combined_1to2, combined_2to1))

\* re.sub(r'\s+', ' ', s)
RECURSIVE CollapseWs(_)
CollapseWs(t) ==
    IF t = <<>> THEN <<>>
    ELSE IF Head(t) \in Whitespace
         THEN <<" ">> \o CollapseWs(StripLeft(t))
    ELSE <<Head(t)>> \o CollapseWs(Tail(t))

\* FullName of fetch_decedents_lists.py: 'last, first middle'
fetch_full_name(r) ==
    Strip(CollapseWs(Lower(r.LName) \o <<",", " ">> \o Lower(r.FName) \o <<" ">>
                     \o Lower(r.MName)))

\* the rows fetch_decedents_lists.py writes to the table voters
fetch_LoadRows(raw_rows) ==
    [i \in 1..Len(raw_rows) |->
        [StateVoterID |-> raw_rows[i].StateVoterID,
         FullName |-> fetch_full_name(raw_rows[i]),
         Birthyear |-> ToInt(raw_rows[i].Birthyear)]]

\* load_voter_registration_to_sqlite of fetch_decedents_lists.py: [conn, db];
\* astype(int) raises on a birth year that is not a number
fetch_load_voter_registration_to_sqlite(voter_file, db) ==
    IF voter_file.state \in {"missing", "empty"} THEN [conn |-> "none", db |-> db]
    ELSE IF voter_file.state = "malformed" THEN [conn |-> "raise", db |-> db]
    ELSE IF \E i \in 1..Len(voter_file.rows) : ~IsNumeric(voter_file.rows[i].Birthyear)
    THEN [conn |-> "raise", db |-> db]
    ELSE [conn |-> "conn",
          db |-> [exists |-> TRUE, rows |-> fetch_LoadRows(voter_file.rows)]]

RECURSIVE fetch_MatchRows(_, _)
fetch_MatchRows(name, rows) ==
    IF rows = <<>> THEN <<>>
    ELSE (IF token_set_ratio(name, Head(rows).FullName) > SimilarityThreshold
          THEN << [StateVoterID |-> Head(rows).StateVoterID, Name |-> name,
                   Birthyear |-> Head(rows).Birthyear] >>
          ELSE <<>>)
         \o fetch_MatchRows(name, Tail(rows))

\* match_decedents_with_voters of fetch_decedents_lists.py: [queries, matches]
RECURSIVE fetch_match_decedents_with_voters(_, _, _)
fetch_match_decedents_with_voters(decs, rows, pdf_year) ==
    IF decs = <<>> THEN [queries |-> <<>>, matches |-> <<>>]
    ELSE LET d == Head(decs)
             reference_year == IF pdf_year # 0 THEN pdf_year ELSE CURRENT_YEAR
             years == possible_birth_years_3(reference_year, d.age)
             rest == fetch_match_decedents_with_voters(Tail(decs), rows, pdf_year)
         IN  [queries |-> << [age |-> d.age, reference_year |-> reference_year,
                              years |-> years] >> \o rest.queries,
              matches |-> fetch_MatchRows(d.name, SelectByBirthyear(rows, years))
                          \o rest.matches]

\* the inputs of the matcher
MatchNames ==
    { <<"a", "l", " ", "b", "o">>, <<"e", "d", " ", "f", "y">>,
      <<"a", "l", " ", "x", " ", "b", "o">> }

MatchAges == {0, 40, 65, 66}

\* 0 stands for a pdf_year that is not supplied
MatchYears == {0, 2023, 2024, 2025}

MatchDecedents ==
    { << [name |-> n, age |-> a] >> : n \in MatchNames, a \in MatchAges }
    \cup { << [name |-> <<"a", "l", " ", "b", "o">>, age |-> 66],
              [name |-> <<"e", "d", " ", "f", "y">>, age |-> 40] >> }

MatchVoterFile ==
    [name |-> <<"2", "0", "2", "4", "0", "1", "0", "1", "_", "V", ".", "t", "x", "t">>,
     state |-> "ok", rows |-> SubSeq(VoterRowsA, 1, 3)]

\* the table voters has the column the query selects
HasColumn(db, col) == db.rows # <<>> /\ col \in DOMAIN db.rows[1]

\* the store after a load of each of the two dated voter files
TwoSnapshots(now_dt) ==
    LET A == CHOOSE f \in VoterFiles : f.rows = VoterRowsA
        B == CHOOSE f \in VoterFiles : f.rows = VoterRowsB
        first == load_voter_registration_to_sqlite(A, << >>, FALSE, now_dt)
    IN  load_voter_registration_to_sqlite(B, first.tables, first.index, now_dt).tables

matchFrame ==
    << now, index_exists, ledger_exists, ledger, run_id, reset, pdf_files, idx, di,
       to_process, runs, calls, hist, dropped, called, skipped, unreported, processed, workers, probe >>

InitMatch ==
    /\ now \in NowSet
    /\ tables \in { << >>,
                    load_voter_registration_to_sqlite(MatchVoterFile, << >>, FALSE,
                                                      now).tables,
                    TwoSnapshots(now) }
    /\ voters_db \in { legacy_load_voter_registration_to_sqlite(MatchVoterFile,
                                                                NoLegacyDb).db,
                       fetch_load_voter_registration_to_sqlite(MatchVoterFile,
                                                               NoLegacyDb).db }
    /\ decedents \in MatchDecedents
    /\ \E y \in MatchYears :
         pdf_date = [year |-> y, month |-> 1, day |-> 1, tick |-> 0]
    /\ index_exists = FALSE
    /\ ledger_exists = FALSE
    /\ ledger = {}
    /\ pc = "match_input"
    /\ run_id = NoRun
    /\ reset = FALSE
    /\ pdf_files = <<>>
    /\ idx = 0
    /\ di = 0
    /\ to_process = <<>>
    /\ total_matches = 0
    /\ reports = <<>>
    /\ runs = 0
    /\ ev = Event("none", <<>>, <<>>, NoRun, FALSE)
    /\ calls = 0
    /\ hist = {}
    /\ dropped = {}
    /\ called = {}
    /\ skipped = {}
    /\ unreported = {}
    /\ processed = <<>>
    /\ queries = <<>>
    /\ workers = << >>
    /\ probe = NoProbe

Matched(op, r) ==
    /\ queries' = r.queries
    /\ reports' = << [file |-> <<>>, date |-> <<>>, matches |-> r.matches] >>
    /\ total_matches' = Len(r.matches)
    /\ ev' = Event(op, <<>>, <<>>, NoRun, TRUE)
    /\ pc' = "matched"
    /\ UNCHANGED << matchFrame, tables, voters_db, decedents, pdf_date >>

\* find_decedents.py, match_decedents_with_voters
MatchCanonical ==
    /\ pc = "match_input"
    /\ Matched("match_find_decedents",
               match_decedents_with_voters(decedents, tables, pdf_date.year))

\* find-decedents.py, match_decedents_with_voters
MatchLegacy ==
    /\ pc = "match_input"
    /\ HasColumn(voters_db, "FName")
    /\ Matched("match_legacy", MatchLoop(decedents, voters_db.rows, pdf_date.year))

\* fetch_decedents_lists.py, match_decedents_with_voters
MatchFetch ==
    /\ pc = "match_input"
    /\ HasColumn(voters_db, "FullName")
    /\ Matched("match_fetch",
               fetch_match_decedents_with_voters(decedents, voters_db.rows,
                                                 pdf_date.year))

NextMatch ==
    \/ MatchCanonical
    \/ MatchLegacy
    \/ MatchFetch

SpecMatch == InitMatch /\ [][NextMatch]_vars

\* the birth years the claim allows for decedent i of the call
BirthYearWindow(i) ==
    LET y == IF pdf_date.year = 0 THEN CURRENT_YEAR ELSE pdf_date.year
        a == decedents[i].age
    IN  IF ev.op = "match_fetch" THEN {y - a - 1, y - a, y - a + 1}
        ELSE {y - a - 1, y - a}

MatchedBirthyear(m) ==
    IF ev.op = "match_fetch" THEN m.Birthyear ELSE m.VoterInfo.Birthyear

\* C10: for a decedent of age a and reference year Y (the PDF year, or the
\* fallback CURRENT_YEAR when none is supplied) the query asks for the birth years
\* {Y-a-1, Y-a}, in fetch_decedents_lists.py for {Y-a-1, Y-a, Y-a+1}, and
\* every matched voter has a birth year in that window.
C10_BirthYearWindow ==
    pc = "matched" =>
        /\ Len(queries) \in {0, Len(decedents)}
        /\ (ev.op # "match_find_decedents" \/ DOMAIN tables # {})
              => Len(queries) = Len(decedents)
        /\ \A i \in 1..Len(queries) :
              SeqToSet(queries[i].years) = BirthYearWindow(i)
        /\ \A k \in 1..Len(reports[1].matches) :
              \E i \in 1..Len(decedents) :
                 /\ decedents[i].name = reports[1].matches[k].Name
                 /\ MatchedBirthyear(reports[1].matches[k]) \in BirthYearWindow(i)

\* age 66 in a 2024 source: the query asked for 1957 and 1958, and of the two
\* voters named al bo only the one born in 1958 was matched
C10_Witness ==
    /\ pc = "matched"
    /\ ev.op = "match_find_decedents"
    /\ pdf_date.year = 2024
    /\ decedents = << [name |-> <<"a", "l", " ", "b", "o">>, age |-> 66] >>
    /\ Len(queries) = 1
    /\ SeqToSet(queries[1].years) = {1957, 1958}
    /\ Len(reports[1].matches) = 1
    /\ reports[1].matches[1].VoterInfo.Birthyear = 1958

(***************************************************************************)
(* Properties of match_decedents_with_voters and is_name_match.            *)
(***************************************************************************)
\* the rows of the snapshot the query of find_decedents.py targets
TargetRows == IF DOMAIN tables = {} THEN <<>> ELSE tables[get_latest_voter_table(tables)]

\* the (decedent, voter) index pairs that qualify for a match
Qualifying ==
    { p \in (1..Len(decedents)) \X (1..Len(TargetRows)) :
        /\ TargetRows[p[2]].Birthyear \in BirthYearWindow(p[1])
        /\ is_name_match(decedents[p[1]].name, voter_name_of(TargetRows[p[2]])) }

\* C11: the matches returned by match_decedents_with_voters of find_decedents.py
\* are exactly the pairs (decedent, voter) with the voter a row of the latest
\* snapshot, its birth year in the decedent's window and is_name_match true:
\* none outside the window, none omitted, none twice.
C11_MatchesExactlyQualifying ==
    (pc = "matched" /\ ev.op = "match_find_decedents") =>
        LET ms == reports[1].matches
        IN  /\ Len(ms) = Cardinality(Qualifying)
            /\ \A p \in Qualifying :
                  \E k \in 1..Len(ms) :
                     ms[k] = [Name |-> decedents[p[1]].name,
                              VoterInfo |-> TargetRows[p[2]]]
            /\ \A k \in 1..Len(ms) :
                  \E p \in Qualifying :
                     ms[k] = [Name |-> decedents[p[1]].name,
                              VoterInfo |-> TargetRows[p[2]]]

\* age 66 in a 2025 source: both voters named al bo (born 1958 and 1959) are
\* matched, and the voter born 1984 is not
C11_Witness ==
    /\ pc = "matched"
    /\ ev.op = "match_find_decedents"
    /\ pdf_date.year = 2025
    /\ decedents = << [name |-> <<"a", "l", " ", "b", "o">>, age |-> 66] >>
    /\ Len(TargetRows) = 3
    /\ Len(reports[1].matches) = 2
    /\ reports[1].matches[1].VoterInfo.Birthyear = 1958
    /\ reports[1].matches[2].VoterInfo.Birthyear = 1959

(***************************************************************************)
(* split_name and is_name_match applied to drawn pairs of names.           *)
(***************************************************************************)
NameEmpty == <<>>

NameOneToken == <<"c", "h", "e", "r">>

NamePadded == <<" ", " ", "a", "l", " ", " ">>

NameAlBo == <<"a", "l", " ", "b", "o">>

NameUpper == <<"A", "l", " ", " ", "X", " ", " ", "B", "o">>

NameTwoMiddles == <<"a", "l", " ", "x", " ", "y", " ", "b", "o">>

NameAlXavierBo == <<"a", "l", " ", "x", "a", "v", "i", "e", "r", " ", "b", "o">>

NameAlBx == <<"a", "l", " ", "b", "x">>

NameJoseph ==
    << "m", "i", "c", "h", "a", "e", "l", " ", "j", "o", "s", "e", "p", "h", " ", "c",
       "r", "e", "e", "g", "a", "n" >>

NameJ ==
    << "m", "i", "c", "h", "a", "e", "l", " ", "j", " ", "c", "r", "e", "e", "g", "a",
       "n" >>

NameJames ==
    << "m", "i", "c", "h", "a", "e", "l", " ", "j", "a", "m", "e", "s", " ", "c", "r",
       "e", "e", "g", "a", "n" >>

NameNoMiddle ==
    << "m", "i", "c", "h", "a", "e", "l", " ", "c", "r", "e", "e", "g", "a", "n" >>

NameTenA ==
    << "a", "b", "c", "d", "e", "f", "g", "h", "i", "j", " ", "q", " ", "b", "o" >>

NameTenB ==
    << "a", "b", "c", "d", "e", "f", "g", "h", "i", "x", " ", "q", " ", "b", "o" >>

NameElevenA ==
    << "a", "b", "c", "d", "e", "f", "g", "h", "i", "j", "k", " ", "q", " ", "b", "o" >>

NameElevenB ==
    << "a", "b", "c", "d", "e", "f", "g", "h", "i", "j", "x", " ", "r", " ", "b", "o" >>

NameElevenC ==
    << "a", "b", "c", "d", "e", "f", "g", "h", "i", "j", "x", " ", "q", " ", "b", "o" >>

Names ==
    { NameEmpty, NameOneToken, NamePadded, NameAlBo,
      NameUpper, NameTwoMiddles, NameAlXavierBo, NameAlBx,
      NameJoseph, NameJ, NameJames, NameNoMiddle,
      NameTenA, NameTenB, NameElevenA, NameElevenB,
      NameElevenC }

nameFrame ==
    << now, tables, index_exists, ledger_exists, ledger, run_id, reset, pdf_files, idx,
       pdf_date, decedents, di, to_process, total_matches, reports, runs, ev, calls,
       hist, dropped, called, skipped, unreported, processed, queries, workers, voters_db >>

InitName ==
    /\ now \in NowSet
    /\ tables = << >>
    /\ index_exists = FALSE
    /\ ledger_exists = FALSE
    /\ ledger = {}
    /\ pc = "name_input"
    /\ run_id = NoRun
    /\ reset = FALSE
    /\ pdf_files = <<>>
    /\ idx = 0
    /\ pdf_date = NoDate
    /\ decedents = <<>>
    /\ di = 0
    /\ to_process = <<>>
    /\ total_matches = 0
    /\ reports = <<>>
    /\ runs = 0
    /\ ev = Event("none", <<>>, <<>>, NoRun, FALSE)
    /\ calls = 0
    /\ hist = {}
    /\ dropped = {}
    /\ called = {}
    /\ skipped = {}
    /\ unreported = {}
    /\ processed = <<>>
    /\ queries = <<>>
    /\ workers = << >>
    /\ voters_db = NoLegacyDb
    /\ \E a \in Names, b \in Names :
         probe = [fn |-> "input", args |-> <<a, b>>, out |-> <<>>]

\* split_name(name)
CallSplitName ==
    /\ pc = "name_input"
    /\ probe' = [fn |-> "split_name", args |-> probe.args,
                 out |-> split_name(probe.args[1])]
    /\ pc' = "returned"
    /\ UNCHANGED nameFrame

\* is_name_match(decedent_name, voter_name)
CallIsNameMatch ==
    /\ pc = "name_input"
    /\ probe' = [fn |-> "is_name_match", args |-> probe.args,
                 out |-> is_name_match(probe.args[1], probe.args[2])]
    /\ pc' = "returned"
    /\ UNCHANGED nameFrame

NextName ==
    \/ CallSplitName
    \/ CallIsNameMatch

SpecName == InitName /\ [][NextName]_vars

\* the whitespace-separated tokens of a name, in lower case
NameTokens(name) == Split(Lower(name))

FirstSim(a, b) == fuzz_ratio(NameTokens(a)[1], NameTokens(b)[1])

LastSim(a, b) ==
    fuzz_ratio(NameTokens(a)[Len(NameTokens(a))], NameTokens(b)[Len(NameTokens(b))])

\* the interior tokens joined by single spaces
MiddleOf(name) ==
    LET tk == NameTokens(name)
    IN  IF Len(tk) > 2 THEN JoinSp([i \in 1..(Len(tk) - 2) |-> tk[i + 1]]) ELSE <<>>

\* C12: is_name_match is false whenever either name has fewer than 2
\* whitespace-separated tokens; split_name of a name with at least 2 tokens
\* gives first = first token, last = last token and middle = the interior
\* tokens joined by single spaces, empty for exactly 2 tokens.
C12_TokenSplit ==
    /\ probe.fn = "is_name_match" =>
          ((Len(NameTokens(probe.args[1])) < 2 \/ Len(NameTokens(probe.args[2])) < 2)
              => probe.out = FALSE)
    /\ probe.fn = "split_name" =>
          LET tk == NameTokens(probe.args[1])
          IN  IF Len(tk) < 2 THEN probe.out = <<>>
              ELSE /\ probe.out = <<tk[1], MiddleOf(probe.args[1]), tk[Len(tk)]>>
                   /\ (Len(tk) = 2 => probe.out[2] = <<>>)

\* a name with two interior tokens was split into al, x y, bo
C12_Witness ==
    /\ probe.fn = "split_name"
    /\ probe.args[1] = NameTwoMiddles
    /\ probe.out = << <<"a", "l">>, <<"x", " ", "y">>, <<"b", "o">> >>

\* C13: is_name_match returns true only if the first-name similarity and the
\* last-name similarity are both strictly greater than 90.
C13_BothAboveThreshold ==
    (probe.fn = "is_name_match" /\ probe.out = TRUE) =>
        /\ FirstSim(probe.args[1], probe.args[2]) > 90
        /\ LastSim(probe.args[1], probe.args[2]) > 90

\* first names of similarity exactly 90 with equal middle and last names:
\* no match
C13_Witness ==
    /\ probe.fn = "is_name_match"
    /\ probe.args = <<NameTenA, NameTenB>>
    /\ FirstSim(NameTenA, NameTenB) = 90
    /\ LastSim(NameTenA, NameTenB) = 100
    /\ MiddleOf(NameTenA) = MiddleOf(NameTenB)
    /\ probe.out = FALSE

\* one of the two is a single character and a prefix of the other
InitialOf(m1, m2) == Len(m1) = 1 /\ Len(m2) >= 1 /\ m2[1] = m1[1]

\* C14: when first and last names both pass, two non-empty middles match
\* exactly when they are equal or one is a single character that is a prefix
\* of the other, and an empty middle on either side matches; so joseph
\* matches j and does not match james.
C14_MiddlePolicy ==
    probe.fn = "is_name_match" =>
        LET a == probe.args[1]
            b == probe.args[2]
        IN  /\ (/\ Len(NameTokens(a)) >= 2 /\ Len(NameTokens(b)) >= 2
                /\ FirstSim(a, b) > 90 /\ LastSim(a, b) > 90)
               => IF MiddleOf(a) # <<>> /\ MiddleOf(b) # <<>>
                  THEN probe.out = (\/ MiddleOf(a) = MiddleOf(b)
                                    \/ InitialOf(MiddleOf(a), MiddleOf(b))
                                    \/ InitialOf(MiddleOf(b), MiddleOf(a)))
                  ELSE probe.out = TRUE
            /\ (a = NameJoseph /\ b = NameJ) => probe.out = TRUE
            /\ (a = NameJoseph /\ b = NameJames) => probe.out = FALSE

\* michael joseph creegan against michael j creegan: a match
C14_Witness ==
    /\ probe.fn = "is_name_match"
    /\ probe.args = <<NameJoseph, NameJ>>
    /\ probe.out = TRUE

\* michael joseph creegan against michael james creegan: no match
C14_WitnessDiffer ==
    /\ probe.fn = "is_name_match"
    /\ probe.args = <<NameJoseph, NameJames>>
    /\ probe.out = FALSE

(***************************************************************************)
(* extract_names_and_ages_from_pdf applied to drawn documents.             *)
(***************************************************************************)
EntryAlBo ==
    << "2", "4", "-", "0", "0", "0", "0", "1", " ", "A", "l", " ", "B", "o", " ", "6",
       "6", " ", "y", "e", "a", "r", "s", " " >>

EntryWrappedName ==
    << "2", "4", "-", "0", "0", "0", "0", "2", " ", "C", "y", "\n", "D", "i", " ", "7",
       "y", "e", "a", "r", "s", " " >>

EntryNoAge ==
    << "2", "4", "-", "0", "0", "0", "0", "3", " ", "E", "d", " ", "F", "y", " " >>

EntryWrappedAge ==
    << "2", "4", "-", "0", "0", "0", "0", "4", " ", "J", "o", " ", "5", "\n", "y", "e",
       "a", "r", "s", " " >>

EntryTwoAges ==
    << "2", "4", "-", "0", "0", "0", "0", "5", " ", "A", "b", " ", "1", "2", " ", "3",
       "4", " ", "y", "e", "a", "r", "s", " ", "9", " ", "y", "e", "a", "r", "s", " " >>

EntryAgeZero ==
    << "2", "4", "-", "0", "0", "0", "0", "6", " ", "B", "a", " ", "0", " ", "y", "e",
       "a", "r", "s", " " >>

EntryAge130 ==
    << "2", "4", "-", "0", "0", "0", "0", "7", " ", "O", "l", " ", "1", "3", "0", " ",
       "y", "e", "a", "r", "s", " " >>

TextNote ==
    << "n", "o", "t", "e", " ", "3", " ", "y", "e", "a", "r", "s", " " >>

Fragments ==
    { EntryAlBo, EntryWrappedName, EntryNoAge, EntryWrappedAge,
      EntryTwoAges, EntryAgeZero, EntryAge130, TextNote }

MaxEntries == 2

\* the page texts made of at most n fragments
RECURSIVE PageTexts(_)
PageTexts(n) ==
    IF n = 0 THEN { <<>> }
    ELSE PageTexts(n - 1) \cup { p \o f : p \in PageTexts(n - 1), f \in Fragments }

\* the pages of the documents of more than one page
SomePages == { <<>>, BrokenPage, EntryAlBo \o EntryNoAge, EntryWrappedName }

Documents ==
    { [ok |-> TRUE, pages |-> <<p>>] : p \in PageTexts(MaxEntries) }
    \cup { [ok |-> TRUE, pages |-> <<p, q>>] : p \in SomePages, q \in SomePages }
    \cup { [ok |-> FALSE, pages |-> <<>>] }

InitExtract ==
    /\ now \in NowSet
    /\ tables = << >>
    /\ index_exists = FALSE
    /\ ledger_exists = FALSE
    /\ ledger = {}
    /\ pc = "extract_input"
    /\ run_id = NoRun
    /\ reset = FALSE
    /\ pdf_files = <<>>
    /\ idx = 0
    /\ pdf_date = NoDate
    /\ decedents = <<>>
    /\ di = 0
    /\ to_process = <<>>
    /\ total_matches = 0
    /\ reports = <<>>
    /\ runs = 0
    /\ ev = Event("none", <<>>, <<>>, NoRun, FALSE)
    /\ calls = 0
    /\ hist = {}
    /\ dropped = {}
    /\ called = {}
    /\ skipped = {}
    /\ unreported = {}
    /\ processed = <<>>
    /\ queries = <<>>
    /\ workers = << >>
    /\ voters_db = NoLegacyDb
    /\ \E pdf \in Documents :
         probe = [fn |-> "input", args |-> <<pdf>>, out |-> <<>>]

\* extract_names_and_ages_from_pdf returns: the records, or [] from the
\* except clause
CallExtract ==
    /\ pc = "extract_input"
    /\ probe' = [fn |-> "extract", args |-> probe.args,
                 out |-> [status |-> "returned",
                          records |-> extract_names_and_ages_from_pdf(probe.args[1])]]
    /\ pc' = "returned"
    /\ UNCHANGED nameFrame

\* the error leaves extract_names_and_ages_from_pdf: the except clause names
\* pdfplumber.PDFSyntaxError, which the installed pdfplumber may not expose
CallExtractRaises ==
    /\ pc = "extract_input"
    /\ RaisesPDFSyntaxError(probe.args[1])
    /\ probe' = [fn |-> "extract", args |-> probe.args,
                 out |-> [status |-> "raised", records |-> <<>>]]
    /\ pc' = "returned"
    /\ UNCHANGED nameFrame

NextExtract ==
    \/ CallExtract
    \/ CallExtractRaises

SpecExtract == InitExtract /\ [][NextExtract]_vars

\* the entry spans of a text: from a case-number token to the next one
EntrySpans(text) ==
    LET starts == FindCases(text, 1)
    IN  [k \in 1..Len(starts) |->
            SubSeq(text, starts[k],
                   IF k < Len(starts) THEN starts[k + 1] - 1 ELSE Len(text))]

HasAgeToken(span) == \E i \in 1..Len(span) : AgeAt(span, i)

\* the number of the leftmost age token of a span
FirstAge(span) ==
    LET i == CHOOSE i \in 1..Len(span) :
                 AgeAt(span, i) /\ \A j \in 1..(i - 1) : ~AgeAt(span, j)
    IN  ToInt(SubSeq(span, i, DigitRunEnd(span, i) - 1))

\* <<case number, age>> of the spans of a text that hold an age token
ExpectedOfText(text) ==
    LET spans == SelectSeq(EntrySpans(text), HasAgeToken)
    IN  [k \in 1..Len(spans) |-> <<SubSeq(spans[k], 1, 8), FirstAge(spans[k])>>]

\* marked: look for the age tokens after the line breaks have become markers
RECURSIVE ExpectedOfPages(_, _)
ExpectedOfPages(pages, marked) ==
    IF pages = <<>> THEN <<>>
    ELSE ExpectedOfText(IF marked THEN ReplaceNewlines(Head(pages)) ELSE Head(pages))
         \o ExpectedOfPages(Tail(pages), marked)

CaseAndAge(records) ==
    [k \in 1..Len(records) |-> <<records[k].case_number, records[k].age>>]

\* C15: for any page text the extractor yields exactly one record per
\* case-number token whose entry span contains an age token, with that case
\* number and the first age of the span, and none for a span without one.
C15_OneRecordPerAgedSpan ==
    (probe.fn = "extract" /\ ~RaisesPDFSyntaxError(probe.args[1])) =>
        /\ probe.out.status = "returned"
        /\ CaseAndAge(probe.out.records)
              = ExpectedOfPages(probe.args[1].pages, FALSE)

\* the same with the age tokens looked for after every line break of the page
\* has become the marker <NEWLINE>: an age token is then digits and 'years'
\* on one line
C15_OnMarkedText ==
    (probe.fn = "extract" /\ ~RaisesPDFSyntaxError(probe.args[1])) =>
        /\ probe.out.status = "returned"
        /\ CaseAndAge(probe.out.records)
              = ExpectedOfPages(probe.args[1].pages, TRUE)

\* a page with an entry without age token between two entries with one
C15_Witness ==
    /\ probe.fn = "extract"
    /\ probe.args[1].pages = << EntryNoAge \o EntryAlBo >>
    /\ CaseAndAge(probe.out.records) = << <<SubSeq(EntryAlBo, 1, 8), 66>> >>

\* the pages of a document that can be parsed
ParsablePages(pdf) == SelectSeq(pdf.pages, LAMBDA p : p # BrokenPage)

\* C16: when a page of a document fails to parse, that page alone is skipped
\* and the records of the other pages are still returned.
C16_BrokenPageSkipped ==
    (/\ probe.fn = "extract"
     /\ probe.args[1].ok
     /\ ExtractPages(ParsablePages(probe.args[1])) # <<>>) =>
        /\ probe.out.status = "returned"
        /\ probe.out.records = ExtractPages(ParsablePages(probe.args[1]))

RECURSIVE VoterDB_LoadRows(_, _)
VoterDB_LoadRows(raw_rows, current_year) ==
    IF raw_rows = <<>> THEN <<>>
    ELSE LET r == Head(raw_rows)
         IN  (IF IsNumeric(r.Birthyear)
              THEN << [StateVoterID |-> r.StateVoterID, FName |-> r.FName,
                       MName |-> r.MName, LName |-> r.LName,
                       Birthyear |-> ToInt(r.Birthyear),
                       Age |-> current_year - ToInt(r.Birthyear)] >>
              ELSE <<>>)
             \o VoterDB_LoadRows(Tail(raw_rows), current_year)

mutant_VoterDB_load_reload(voter_file, tabs, now_dt) ==
    IF ~(AllDigits(voter_file.name, 1, 8) /\ Len(voter_file.name) >= 9
         /\ voter_file.name[9] = "_")
       \/ voter_file.state \in {"missing", "empty", "malformed"}
    THEN [table_name |-> <<>>, tables |-> tabs]
    ELSE [table_name |-> SubSeq(voter_file.name, 1, 8),
          tables |-> [n \in DOMAIN tabs \cup {SubSeq(voter_file.name, 1, 8)} |->
                        IF n = SubSeq(voter_file.name, 1, 8)
                        THEN VoterDB_LoadRows(voter_file.rows, now_dt.year)
                        ELSE tabs[n]]]

mutant_VoterDB_load_single_partition(voter_file, tabs, now_dt) ==
    IF ~(AllDigits(voter_file.name, 1, 8) /\ Len(voter_file.name) >= 9
         /\ voter_file.name[9] = "_")
    THEN [table_name |-> <<>>, tables |-> tabs]
    ELSE IF SubSeq(voter_file.name, 1, 8) \in DOMAIN tabs
    THEN [table_name |-> SubSeq(voter_file.name, 1, 8), tables |-> tabs]
    ELSE IF voter_file.state \in {"missing", "empty", "malformed"}
    THEN [table_name |-> <<>>, tables |-> tabs]
    ELSE [table_name |-> SubSeq(voter_file.name, 1, 8),
          tables |-> [n \in {SubSeq(voter_file.name, 1, 8)} |->
                        VoterDB_LoadRows(voter_file.rows, now_dt.year)]]

\* VoterDB.load_voter_registration: [table_name, tables]; table_name is <<>>
\* for None (any exception is caught), the indexes are named after the table
VoterDB_load_voter_registration(voter_file, tabs, now_dt) ==
    LET dated == /\ AllDigits(voter_file.name, 1, 8)
                 /\ Len(voter_file.name) >= 9
                 /\ voter_file.name[9] = "_"
        table_name == SubSeq(voter_file.name, 1, 8)
    IN  IF ~dated THEN [table_name |-> <<>>, tables |-> tabs]
        ELSE IF table_name \in DOMAIN tabs
        THEN [table_name |-> table_name, tables |-> tabs]
        ELSE IF voter_file.state \in {"missing", "empty", "malformed"}
        THEN [table_name |-> <<>>, tables |-> tabs]
        ELSE [table_name |-> table_name,
              tables |-> [n \in DOMAIN tabs \cup {table_name} |->
                            IF n = table_name
                            THEN VoterDB_LoadRows(voter_file.rows, now_dt.year)
                            ELSE tabs[n]]]

MaxLoads == 3

loadFrame ==
    << ledger_exists, ledger, pc, run_id, reset, pdf_files, idx, pdf_date, decedents,
       di, to_process, total_matches, reports, calls, hist, dropped, called, skipped, unreported, processed,
       queries, workers, voters_db >>

InitLoad == Init

\* load_voter_registration_to_sqlite(voter_file) of find_decedents.py
LoadFindDecedents ==
    /\ pc = "idle" /\ runs < MaxLoads
    /\ \E voter_file \in VoterFiles :
         LET load == load_voter_registration_to_sqlite(voter_file, tables, index_exists, now)
         IN  /\ tables' = load.tables
             /\ index_exists' = load.index
             /\ ev' = Event("load_find_decedents", voter_file.name, <<>>, NoRun,
                            load.conn = "conn")
             /\ probe' = [fn |-> "load_voter_registration_to_sqlite",
                          args |-> <<voter_file>>, out |-> load.conn]
    /\ runs' = runs + 1
    /\ UNCHANGED << now, loadFrame >>

\* VoterDB.load_voter_registration(voter_file)
LoadVoterDB ==
    /\ pc = "idle" /\ runs < MaxLoads
    /\ \E voter_file \in VoterFiles :
         LET load == VoterDB_load_voter_registration(voter_file, tables, now)
         IN  /\ tables' = load.tables
             /\ ev' = Event("load_voter_db", voter_file.name, <<>>, NoRun,
                            load.table_name # <<>>)
             /\ probe' = [fn |-> "load_voter_registration",
                          args |-> <<voter_file>>, out |-> load.table_name]
    /\ runs' = runs + 1
    /\ UNCHANGED << now, index_exists, loadFrame >>

\* the clock advances between two loads
LoadTick ==
    /\ \E t \in NowSet : Instant(t) > Instant(now) /\ now' = t
    /\ UNCHANGED << tables, index_exists, runs, ev, probe, loadFrame >>

NextLoad ==
    \/ LoadFindDecedents
    \/ LoadVoterDB
    \/ LoadTick

SpecLoad == InitLoad /\ [][NextLoad]_vars

\* the file name starts with a date: YYYYMMDD_
DatedName(name) == AllDigits(name, 1, 8) /\ Len(name) >= 9 /\ name[9] = "_"

\* a load of a voter file has been made in this step
LoadStep == runs' = runs + 1 /\ ev'.op \in {"load_find_decedents", "load_voter_db"}

\* C18: when the partition of a date exists, a load of a voter file with that
\* date returns the existing partition without reading the file and leaves
\* the store as it was: the same partitions with the same rows.
C18_LoadIdempotent ==
    [][ (/\ LoadStep
         /\ DatedName(ev'.file)
         /\ SubSeq(ev'.file, 1, 8) \in DOMAIN tables)
        => /\ ev'.ret = TRUE
           /\ tables' = tables
           /\ (ev'.op = "load_voter_db" => probe'.out = SubSeq(ev'.file, 1, 8)) ]_vars

\* a load of a file that is not there returned the partition of its date
C18_Witness ==
    /\ ev.op = "load_find_decedents"
    /\ probe.args[1].state = "missing"
    /\ DatedName(ev.file)
    /\ SubSeq(ev.file, 1, 8) \in DOMAIN tables
    /\ ev.ret = TRUE

\* C19: a partition, once created, is never mutated: every step leaves each
\* existing voters_<date> partition in the store with the rows it had.
C19_PartitionsImmutable ==
    [][ \A n \in DOMAIN tables : n \in DOMAIN tables' /\ tables'[n] = tables[n] ]_vars

\* three loads were made, the last one returned a partition, and the store
\* holds two partitions
C19_Witness ==
    /\ runs = 3
    /\ ev.op \in {"load_find_decedents", "load_voter_db"}
    /\ ev.ret = TRUE
    /\ Cardinality(DOMAIN tables) = 2

FileByName(name) == CHOOSE f \in VoterFiles : f.name = name

\* C20: a run that loads a readable voter file whose date differs from every
\* existing partition adds the partition of that date, keeps the earlier
\* ones and goes on to list the sources.
C20_SnapshotsCoexist ==
    [][ (/\ runs' = runs + 1
         /\ FileByName(ev'.file).state = "ok"
         /\ extract_date_from_voter_file(ev'.file, now) \notin DOMAIN tables)
        => /\ ev'.op \in {"begin", "no_files"}
           /\ DOMAIN tables'
                = DOMAIN tables \cup {extract_date_from_voter_file(ev'.file, now)}
           /\ \A n \in DOMAIN tables : tables'[n] = tables[n] ]_vars


(***************************************************************************)
(* The snapshot match_decedents_with_voters targets.                       *)
(***************************************************************************)
\* the date of a partition voters_<YYYYMMDD>, as a number
PartitionDate(table_name) == ToInt(table_name)

\* the partitions of the store whose date no other partition exceeds
GreatestDated(tabs) ==
    {n \in DOMAIN tabs : \A m \in DOMAIN tabs : PartitionDate(m) <= PartitionDate(n)}

C21_WitnessNoPartition ==
    /\ pc = "matched"
    /\ ev.op = "match_find_decedents"
    /\ DOMAIN tables = {}
    /\ reports[1].matches = <<>>

(***************************************************************************)
(* A run whose voter file cannot be read.                                  *)
(***************************************************************************)
\* a step that starts a run of main; ev'.file is its voter file
RunStartStep == runs' = runs + 1

\* the run started by this step ended in it, having done nothing with sources
AbortedInStep ==
    /\ pc' = "idle"
    /\ processed' = processed
    /\ reports' = reports
    /\ queries' = queries
    /\ total_matches' = total_matches

\* C22: a run whose voter file is missing, empty or malformed gets the
\* load-failure value from the load, which does not raise, and aborts: it
\* extracts no source, matches nothing and emits no report.
C22_UnreadableVoterFileAborts ==
    [][ (RunStartStep /\ FileByName(ev'.file).state \in {"missing", "empty", "malformed"})
        => (ev'.op = "load_failed" /\ AbortedInStep) ]_vars

\* the same for a missing or empty file whose date names no existing partition
C22_MissingOrEmptyAborts ==
    [][ (/\ RunStartStep
         /\ FileByName(ev'.file).state \in {"missing", "empty"}
         /\ extract_date_from_voter_file(ev'.file, now) \notin DOMAIN tables)
        => (ev'.op = "load_failed" /\ AbortedInStep) ]_vars

\* a run given an empty voter file returned after the failed load
C22_WitnessEmpty ==
    /\ ev.op = "load_failed"
    /\ FileByName(ev.file).state = "empty"
    /\ pc = "idle"

\* a run given a malformed voter file ended with the exception of the load
C22_WitnessMalformedRaises ==
    /\ ev.op = "load_raised"
    /\ FileByName(ev.file).state = "malformed"

\* a run given a missing voter file went on, the partition of its date existing
C22_WitnessMissingProceeds ==
    /\ ev.op = "begin"
    /\ FileByName(ev.file).state = "missing"

(***************************************************************************)
(* A source whose PDF cannot be processed.                                 *)
(***************************************************************************)
\* pdfplumber cannot process the file
Unprocessable(filename) == RaisesPDFSyntaxError(Pdf(filename))

\* C23: a source whose PDF cannot be processed is skipped and is not fatal to
\* the batch: the step of the loop of main on such a source (old enough to be
\* extracted) contributes no record and moves on to the next source, so that
\* the other sources are still extracted and matched, and the loop over the
\* sources of the batch ends only by reaching the summary.
C23_FailedSourceNotFatal ==
    [][ /\ (/\ FileStep
            /\ Eligible(pdf_files[idx], now)
            /\ Unprocessable(pdf_files[idx]))
           => /\ pc' = "file" /\ idx' = idx + 1
              /\ ledger' = ledger
              /\ reports' = reports
        /\ (pc = "file" /\ pc' = "idle") => ev'.op = "summary" ]_vars

\* a run ended with its summary after the extractor returned no record for
\* the source that cannot be processed and the later source was extracted
C23_WitnessSkipped ==
    /\ ev.op = "summary"
    /\ Len(processed) = 3
    /\ processed[2] = FileBroken
    /\ processed[3] = FileFeb

\* a run ended at the source that cannot be processed, before the later one
C23_WitnessFatal ==
    /\ ev.op = "extract_raised"
    /\ ev.file = FileBroken
    /\ pc = "idle"
    /\ idx < Len(pdf_files)
    /\ Eligible(pdf_files[idx + 1], now)

(***************************************************************************)
(* Superseded originals.                                                   *)
(***************************************************************************)
\* the file name ends in .org.pdf
IsSupersededOriginal(filename) == EndsWith(filename, SuffixOrgPdf)

\* C24: a file whose name ends in .org.pdf is never processed by the
\* orchestrator: it is never passed to the extractor, to the ledger or to the
\* matcher, and no report is made for it.
C24_OrgPdfNeverProcessed ==
    /\ \A i \in 1..Len(processed) : ~IsSupersededOriginal(processed[i])
    /\ \A i \in 1..Len(reports) : ~IsSupersededOriginal(reports[i].file)
    /\ ev.op \in {"extract", "extract_raised", "call", "match"}
          => ~IsSupersededOriginal(ev.file)

\* a run of find_decedents.py on a folder that holds D_01152024.org.pdf ended
\* having extracted and reported the other source only
C24_Witness ==
    /\ ev.op = "summary"
    /\ run_id # NoRun
    /\ processed = <<FileJan, FileMay>>
    /\ Len(reports) = 2

\* find-decedents.py extracted D_01152024.org.pdf and reported on it
C24_WitnessLegacy ==
    /\ run_id = NoRun
    /\ \E i \in 1..Len(reports) : reports[i].file = FileOrg

(***************************************************************************)
(* Effects of process_decedent and of skipped sources on the ledger.       *)
(***************************************************************************)
\* C25: a call of process_decedent that returns False (the case number is
\* recorded under the current run or under another run) leaves the ledger
\* exactly as it was: no entry is added, changed or removed.
C25_RefusalLeavesLedger ==
    [][ (CallStep /\ ~ev'.ret) => ledger' = ledger ]_vars

\* a call was refused for a case recorded from a source of another date, and
\* the entry still carries the dates of that first source
C25_Witness ==
    /\ ev.op = "call"
    /\ ~ev.ret
    /\ Cardinality(ledger) >= 2
    /\ \E e \in ledger :
          /\ e.case_number = ev.case
          /\ e.first_seen_date # DateStr(pdf_date)
          /\ e.last_seen_date = e.first_seen_date

\* C26: in sequential execution every case number has at most one ledger
\* entry across all run ids, after any sequence of runs and calls of
\* process_decedent.
C26_OneEntryPerCase ==
    \A e1, e2 \in ledger : e1.case_number = e2.case_number => e1 = e2

\* the ledger holds entries of two runs, and the later run has met again a
\* case of the earlier one, which was refused
C26_Witness ==
    /\ \E e1, e2 \in ledger : e1.run_id # e2.run_id
    /\ \E e \in ledger : e.run_id # run_id /\ e.case_number \in called
    /\ \E p \in hist : p[2] # run_id
    /\ ev.op = "summary"

\* a step of the loop of main that skips the source pdf_files[idx]: its name
\* holds no date, it is too recent, or the extractor returned no record
SkipStep ==
    /\ FileStep
    /\ \/ ev'.op \in {"skip_no_date", "skip_recent"}
       \/ ev'.op = "extract" /\ ~ev'.ret

\* C27: a step that skips a source leaves the ledger unchanged, so that the
\* case numbers of the source are not suppressed: when a later run finds the
\* source eligible, the call for each of its case numbers that has no ledger
\* entry returns True and the case is processed.
C27_SkipLeavesLedger ==
    [][ /\ SkipStep => (ledger' = ledger /\ ledger_exists' = ledger_exists)
        /\ (/\ CallStep
            /\ ev'.file \in skipped
            /\ \A p \in hist : p[1] # ev'.case)
           => (ev'.ret /\ to_process' = Append(to_process, [name |-> decedents[di].name,
                                                             age |-> decedents[di].age])) ]_vars

\* a run skipped D_01152024.pdf as too recent, and a later run, without reset,
\* processed a case of that source
C27_Witness ==
    /\ runs = 2
    /\ ~reset
    /\ ev.op = "call"
    /\ ev.ret
    /\ ev.file = FileJan
    /\ FileJan \in skipped

\* the case numbers of the source being processed
SourceCases == {decedents[i].case_number : i \in 1..Len(decedents)}

\* C28: when the lookup and the matching for a source start, every case number
\* of the source has its ledger entry, inserted and committed; a run that stops
\* during matching or reporting leaves these entries, and every later call
\* for such a case number returns False although the case was never reported.
C28_RecordedBeforeMatching ==
    [][ /\ (pc = "match" /\ ev'.op \in {"match", "match_stopped"}) =>
              /\ \A c \in SourceCases : SelectByCase(ledger, c) # {}
              /\ \A i \in 1..Len(to_process) :
                    \E e \in ledger :
                       /\ e.run_id = run_id
                       /\ e.name = to_process[i].name /\ e.age = to_process[i].age
                       /\ e.case_number \in SourceCases
              /\ queries' # queries => ev'.op = "match"
        /\ (pc = "match" /\ ev'.op = "match_stopped") =>
              (ledger' = ledger /\ reports' = reports)
        /\ (CallStep /\ ev'.case \in unreported) => ~ev'.ret ]_vars

\* a run stopped while matching the source of case 24-00005, and the next run,
\* under another run id, refused the case, which no report has shown
C28_Witness ==
    /\ runs = 2
    /\ ev.op = "call"
    /\ ~ev.ret
    /\ ev.case \in unreported
    /\ reports = <<>>
    /\ \E e \in ledger : e.case_number = ev.case /\ e.run_id # run_id

(***************************************************************************)
(* A case number that several sources of one run contain.                  *)
(***************************************************************************)
\* the case numbers the extractor finds in a file
CasesOf(filename) ==
    LET recs == extract_names_and_ages_from_pdf(Pdf(filename))
    IN  {recs[i].case_number : i \in 1..Len(recs)}

\* C29: a new case number that several eligible sources of one run contain is
\* recorded and matched for its occurrence in the earliest-dated of them only:
\* no source extracted before in the run contains it, no source still to come
\* that contains it is older, the ledger entry carries the date of that
\* source as first_seen_date and last_seen_date, the matching of the source
\* uses its year as reference year, and a refused occurrence is not matched.
C29_EarliestSourceWins ==
    [][ /\ (CallStep /\ ev'.ret) =>
              /\ pdf_date = DateOf(ev'.file)
              /\ \A i \in 1..(Len(processed) - 1) : ev'.case \notin CasesOf(processed[i])
              /\ \A k \in (idx + 1)..Len(pdf_files) :
                    (DateOf(pdf_files[k]) # NoDate /\ ev'.case \in CasesOf(pdf_files[k]))
                    => Instant(DateOf(pdf_files[k])) >= Instant(pdf_date)
              /\ \E e \in ledger' \ ledger :
                    /\ e.case_number = ev'.case
                    /\ e.first_seen_date = DateStr(pdf_date)
                    /\ e.last_seen_date = DateStr(pdf_date)
        /\ (CallStep /\ ~ev'.ret) => to_process' = to_process
        /\ (pc = "match" /\ ev'.op = "match") =>
              /\ Len(queries') = Len(to_process)
              /\ \A i \in 1..Len(queries') :
                    queries'[i].reference_year = DateOf(pdf_files[idx]).year
              /\ \A i \in 1..Len(to_process) :
                    \E e \in ledger :
                       /\ e.name = to_process[i].name /\ e.age = to_process[i].age
                       /\ e.run_id = run_id
                       /\ e.first_seen_date = DateStr(DateOf(pdf_files[idx])) ]_vars

\* case 24-00001 is in D_11302023.pdf and in D_01152024.pdf: it was recorded
\* with the date 2023-11-30 and matched with reference year 2023, and its
\* occurrence in the source of 2024 was refused
C29_Witness ==
    /\ ev.op = "call"
    /\ ~ev.ret
    /\ ev.file = FileJan
    /\ processed = <<FileNov, FileJan>>
    /\ \E e \in ledger :
          /\ e.case_number = ev.case
          /\ e.run_id = run_id
          /\ e.first_seen_date = DateStr([year |-> 2023, month |-> 11, day |-> 30, tick |-> 0])
          /\ e.last_seen_date = e.first_seen_date
    /\ Len(queries) = 1
    /\ queries[1].reference_year = 2023
    /\ Len(reports) = 1

(***************************************************************************)
(* The ledger in a run whose load fails.                                   *)
(***************************************************************************)
\* the load of the run started by this step did not give a connection
LoadFailedInStep ==
    /\ RunStartStep
    /\ load_voter_registration_to_sqlite(FileByName(ev'.file), tables,
                                         index_exists, now).conn # "conn"

\* C30: a run whose reference load fails ends without any change to the
\* ledger, even when reset was requested: the ledger is neither dropped nor
\* created nor extended, and the run goes no further.
C30_AbortedRunLeavesLedger ==
    [][ LoadFailedInStep
        => (/\ ledger' = ledger
            /\ ledger_exists' = ledger_exists
            /\ pc' = "idle"
            /\ ev'.op \in {"load_failed", "load_raised"}) ]_vars

\* a run with reset requested returned after its failed load, the ledger
\* still holding the entries of the run before
C30_Witness ==
    /\ ev.op = "load_failed"
    /\ reset
    /\ runs = 2
    /\ ledger_exists
    /\ ledger # {}

\* a first run whose load failed left no ledger table behind
C30_WitnessNotCreated ==
    /\ ev.op = "load_failed"
    /\ runs = 1
    /\ ~ledger_exists
=============================================================================
